---- MODULE Spec2Model ----
(***************************************************************************)
(* A state-machine model of the capitalflow backend (alpha-turing/        *)
(* capitalflow): corporate-action processing, registration, FIFO tax-lot   *)
(* accounting, position refresh, price storage and instrument resolution.  *)
(* Each subsystem has its own specification over its own variables; the    *)
(* variables of the other subsystems are held at their idle value.         *)
(* Decimal amounts are modelled as integers (all values used are whole).   *)
(* A SQL NULL / Python None is modelled as 0 for numbers and "" for text.  *)
(***************************************************************************)
EXTENDS Integers, Sequences, FiniteSets, TLC

VARIABLES
    corporate_actions,  \* table corporate_actions: id -> row
    positions,          \* table positions (as seen by the processor): id -> row
    ca_transactions,    \* dividend transactions written by the processor
    requests,           \* in-flight POST /{id}/process requests
    runs,               \* direct calls of CorporateActionProcessor.process_action
    background_tasks,   \* deferred executions scheduled per action
    task_escaped,       \* deferred executions that ended with an escaping error
    users,              \* table users: sequence of rows, the index is the row id
    registrations,      \* in-flight POST /auth/register requests
    logins,             \* answered POST /auth/login requests
    transactions,       \* calculate_position: the transactions argument
    current_price,      \* calculate_position: the current_price argument (0 = None)
    calc_pc,            \* calculate_position: "idle", "replay", "done" or "error"
    sorted_transactions,\* calculate_position: transactions sorted by date
    next_txn,           \* calculate_position: index of the next transaction of the loop
    total_quantity,     \* calculate_position: running quantity
    tax_lots,           \* calculate_position: the tax lots built so far
    realized_gains,     \* calculate_position: the realized gains so far
    snapshot,           \* calculate_position: the PositionSnapshot returned
    txn_rows,           \* table transactions (portfolio service): sequence of rows
    price_rows,         \* table prices: instrument -> latest close price (0 = no row)
    position_rows,      \* table positions: sequence of committed rows, index = id
    refreshes,          \* sessions running update_portfolio_positions
    now,                \* the clock read by datetime.now
    data_version,       \* history: number of transaction and price writes so far
    refreshed_at,       \* history: portfolio -> data_version its last committed
                        \* refresh calculated from (-1 = never refreshed)
    prices,             \* table prices (pricing service): sequence of rows
    equity_listed,      \* whether an active equity instrument exists
    today,              \* date.today()
    price_tasks,        \* runs of update_eod_prices / backfill_missing_prices
    instruments,        \* table instruments: sequence of rows, index = id
    canonical_cache,    \* InstrumentCanonicalizer._cache: set of entries
    mapping_calls,      \* calls of InstrumentMappingService.find_or_create_instrument
    file_uploads,       \* table file_uploads: sequence of committed rows, index = id
    upload_instruments, \* table instruments as the uploads see it: set of rows
    upload_transactions,\* table transactions as the uploads write it
    upload_results,     \* how each call of process_file_upload ended
    portfolio_owner,    \* table portfolios: portfolio id -> user_id ("" = no row)
    api_responses,      \* the answers of the portfolio-scoped requests so far
    api_writes,         \* history: commits made by portfolio-scoped requests
    dash_portfolios,    \* table portfolios (dashboard): id -> owner and summary outcome
    dash_responses,     \* the answers of GET /dashboard/ so far
    canon_cache,        \* InstrumentCanonicalizer._cache (canonicalizer alone)
    canon_results       \* what each call of canonicalize returned or raised

caVars == <<corporate_actions, positions, ca_transactions, requests, runs,
            background_tasks, task_escaped>>

authVars == <<users, registrations, logins>>

lotVars == <<transactions, current_price, calc_pc, sorted_transactions, next_txn,
             total_quantity, tax_lots, realized_gains, snapshot>>

posVars == <<txn_rows, price_rows, position_rows, refreshes, now, data_version,
             refreshed_at>>

priceVars == <<prices, equity_listed, today, price_tasks>>

instrVars == <<instruments, canonical_cache, mapping_calls>>

uploadVars == <<file_uploads, upload_instruments, upload_transactions, upload_results>>

apiVars == <<portfolio_owner, api_responses, api_writes>>

dashVars == <<dash_portfolios, dash_responses>>

canonVars == <<canon_cache, canon_results>>

vars == <<caVars, authVars, lotVars, posVars, priceVars, instrVars, uploadVars, apiVars,
          dashVars, canonVars>>

\* What each subsystem's steps leave alone: the other subsystems' variables.
CAFrame ==
    UNCHANGED <<authVars, lotVars, posVars, priceVars, instrVars, uploadVars, apiVars, dashVars,
                canonVars>>
AuthFrame ==
    UNCHANGED <<caVars, lotVars, posVars, priceVars, instrVars, uploadVars, apiVars, dashVars,
                canonVars>>
LotFrame ==
    UNCHANGED <<caVars, authVars, posVars, priceVars, instrVars, uploadVars, apiVars, dashVars,
                canonVars>>
PosFrame ==
    UNCHANGED <<caVars, authVars, lotVars, priceVars, instrVars, uploadVars, apiVars, dashVars,
                canonVars>>
PriceFrame ==
    UNCHANGED <<caVars, authVars, lotVars, posVars, instrVars, uploadVars, apiVars, dashVars,
                canonVars>>
UploadFrame ==
    UNCHANGED <<caVars, authVars, lotVars, posVars, priceVars, instrVars, apiVars, dashVars,
                canonVars>>
ApiFrame ==
    UNCHANGED <<caVars, authVars, lotVars, posVars, priceVars, instrVars, uploadVars, dashVars,
                canonVars>>
DashFrame ==
    UNCHANGED <<caVars, authVars, lotVars, posVars, priceVars, instrVars, uploadVars, apiVars,
                canonVars>>
CanonFrame ==
    UNCHANGED <<caVars, authVars, lotVars, posVars, priceVars, instrVars, uploadVars, apiVars,
                dashVars>>
InstrFrame ==
    UNCHANGED <<caVars, authVars, lotVars, posVars, priceVars, uploadVars, apiVars, dashVars,
                canonVars>>

(***************************************************************************)
(* Bounds                                                                  *)
(***************************************************************************)
MaxActions == 2
MaxRequests == 2
MaxRuns == 2
MaxPositions == 1
MaxRegistrations == 2
MaxLogins == 2
MaxTxns == 4
MaxDate == 3
MaxTxnRows == 3
MaxRefreshes == 2
MaxInstruments == 2
MaxPriceTasks == 2
MaxFunds == 2
BackfillDays == 1
MaxInstrumentRows == 2
MaxMappingCalls == 2
MaxFileTxns == 2
MaxUploads == 2
MaxApiCalls == 2
MaxDashboardCalls == 2
MaxCanonicalizeCalls == 2

ActionIds == 1..MaxActions
RequestIds == 1..MaxRequests
RunIds == 1..MaxRuns
PositionIds == 1..MaxPositions

(***************************************************************************)
(* Corporate actions                                                       *)
(***************************************************************************)
\* CorporateActionStatus members the code assigns; "absent" marks an id with no row.
PENDING == "pending"
PROCESSING == "processing"
COMPLETED == "completed"
FAILED == "failed"
ABSENT == "absent"

STOCK_SPLIT == "stock_split"
BONUS == "bonus"
DIVIDEND == "dividend"
RIGHTS == "rights"

NoAction ==
    [status |-> ABSENT, action_type |-> "", ratio_old |-> 0, ratio_new |-> 0,
     cash_amount |-> 0, instrument_id |-> 0]

\* Request bodies accepted by POST /corporate-actions/ (CorporateActionCreate).
CorporateActionCreate ==
    { [action_type |-> t, ratio_old |-> ro, ratio_new |-> rn, cash_amount |-> c]
        : t \in {STOCK_SPLIT, BONUS, DIVIDEND, RIGHTS},
          ro \in {0, 1}, rn \in {0, 2}, c \in {0, 5} }

\* The request bodies the model draws: one per dispatch outcome.
CreateInputs ==
    { d \in CorporateActionCreate :
        \/ d.action_type = STOCK_SPLIT /\ d.ratio_old = 1 /\ d.ratio_new = 2 /\ d.cash_amount = 0
        \/ d.action_type = BONUS /\ d.ratio_old = 1 /\ d.cash_amount = 0
        \/ d.action_type = DIVIDEND /\ d.ratio_old = 0 /\ d.ratio_new = 0
        \/ d.action_type = RIGHTS /\ d.ratio_old = 0 /\ d.ratio_new = 0 /\ d.cash_amount = 0 }

OpenPositions(instrument_id) ==
    { p \in PositionIds : positions[p].instrument_id = instrument_id
                          /\ positions[p].quantity > 0 }

\* A _process_stock_split whose attribute names exist on the models.
SplitApplied(action) ==
    IF action.ratio_old = 0 \/ action.ratio_new = 0 THEN "ValueError" ELSE "ok"

\* Outcome of _process_stock_split: "ok" or the exception raised.
\* Position has no attribute average_price (the column is average_cost), so the
\* first open position raises before anything is assigned; TaxLot has no
\* attribute status, so building the tax-lot query raises in every other case.
ProcessStockSplit(action) ==
    IF action.ratio_old = 0 \/ action.ratio_new = 0 THEN "ValueError"
    ELSE IF OpenPositions(action.instrument_id) # {} THEN "AttributeError"
    ELSE "AttributeError"

\* Outcome of _process_bonus_issue: position.average_price raises on the first
\* open position; with no open position the loop is empty and the commit succeeds.
ProcessBonusIssue(action) ==
    IF action.ratio_old = 0 \/ action.ratio_new = 0 THEN "ValueError"
    ELSE IF OpenPositions(action.instrument_id) # {} THEN "AttributeError"
    ELSE "ok"

\* Outcome of _process_dividend: Transaction(...) is given the keyword amount,
\* which is no column of Transaction, so the first open position raises
\* TypeError before db.add; with no open position nothing is created.
ProcessDividend(action) ==
    IF action.cash_amount = 0 THEN "ValueError"
    ELSE IF OpenPositions(action.instrument_id) # {} THEN "TypeError"
    ELSE "ok"

\* A dispatcher that assigns position.quantity before it reads average_price.
QuantityAssignedFirst(action) ==
    IF action.action_type \in {STOCK_SPLIT, BONUS}
         /\ action.ratio_old # 0 /\ action.ratio_new # 0
    THEN OpenPositions(action.instrument_id) ELSE {}
\* The positions a dispatcher that raises has already written in its session:
\* none. In _process_stock_split and _process_bonus_issue the read of
\* position.average_price precedes both assignments of the first position, and
\* in _process_dividend the Transaction constructor raises before db.add.
WritesBeforeRaise(action) == {}

\* The positions a dispatcher has written when it leaves: every open position
\* when it returns, WritesBeforeRaise when it raises.
SessionWrites(action, outcome) ==
    IF outcome = "ok" THEN OpenPositions(action.instrument_id)
    ELSE WritesBeforeRaise(action)

\* The column a split or bonus assigns: quantity (average_price is no column of
\* Position, so its assignment reaches no row).
Adjusted(position, action) ==
    IF action.action_type = STOCK_SPLIT
      THEN [position EXCEPT !.quantity = (@ * action.ratio_new) \div action.ratio_old]
    ELSE IF action.action_type = BONUS
      THEN [position EXCEPT !.quantity = @ + (@ * action.ratio_new) \div action.ratio_old]
    ELSE position

\* What a commit of run p's session persists, given the positions it wrote.
CommittedPositions(p, written) ==
    [q \in PositionIds |->
        IF q \in written
        THEN Adjusted(positions[q], corporate_actions[runs[p].action_id])
        ELSE positions[q]]

CommittedTransactions(p, written) ==
    IF corporate_actions[runs[p].action_id].action_type = DIVIDEND
    THEN ca_transactions \cup
           { [action_id |-> runs[p].action_id, position_id |-> q, run |-> p]
               : q \in written }
    ELSE ca_transactions

\* The dispatch of process_action (lines 49-57).
Dispatch(action) ==
    IF action.action_type = STOCK_SPLIT THEN ProcessStockSplit(action)
    ELSE IF action.action_type = BONUS THEN ProcessBonusIssue(action)
    ELSE IF action.action_type = DIVIDEND THEN ProcessDividend(action)
    ELSE "ValueError"

\* seen: the status db.get returned to the request.
IdleRequest == [pc |-> "idle", action_id |-> 0, seen |-> "", response |-> 0]
\* dirty: the positions the run's session has written and not yet committed
\* (after the last commit: the positions it committed); seen: the status the
\* select returned to the run.
IdleRun == [pc |-> "idle", action_id |-> 0, seen |-> "", error |-> "", dirty |-> {}]

CAIdle ==
    /\ corporate_actions = [a \in ActionIds |-> NoAction]
    /\ positions = [p \in PositionIds |-> [instrument_id |-> 1, quantity |-> 0, average_cost |-> 50]]
    /\ ca_transactions = {}
    /\ requests = [r \in RequestIds |-> IdleRequest]
    /\ runs = [p \in RunIds |-> IdleRun]
    /\ background_tasks = [a \in ActionIds |-> 0]
    /\ task_escaped = [a \in ActionIds |-> 0]

CAInit ==
    /\ corporate_actions = [a \in ActionIds |-> NoAction]
    /\ positions \in [PositionIds -> { [instrument_id |-> 1, quantity |-> q, average_cost |-> 50]
                                        : q \in {0, 100} }]
    /\ ca_transactions = {}
    /\ requests = [r \in RequestIds |-> IdleRequest]
    /\ runs = [p \in RunIds |-> IdleRun]
    /\ background_tasks = [a \in ActionIds |-> 0]
    /\ task_escaped = [a \in ActionIds |-> 0]

\* POST /corporate-actions/ : the row is always created pending, so the
\* auto-approved branch (status == APPROVED) schedules nothing.
create_corporate_action(a, d) ==
    /\ corporate_actions[a].status = ABSENT
    /\ corporate_actions' = [corporate_actions EXCEPT ![a] =
            [status |-> PENDING, action_type |-> d.action_type,
             ratio_old |-> d.ratio_old, ratio_new |-> d.ratio_new,
             cash_amount |-> d.cash_amount, instrument_id |-> 1]]
    /\ UNCHANGED <<positions, ca_transactions, requests, runs, background_tasks, task_escaped>>
    /\ CAFrame

\* POST /{action_id}/process up to its first commit: db.get and the two checks.
\* The HTTPException(404) and HTTPException(400) are raised inside the try block
\* and caught by its "except Exception", which answers 500.
process_corporate_action_get(r, a) ==
    /\ requests[r].pc = "idle"
    /\ IF corporate_actions[a].status = ABSENT
         THEN requests' = [requests EXCEPT ![r] =
                [pc |-> "done", action_id |-> a, seen |-> ABSENT, response |-> 500]]
         ELSE IF corporate_actions[a].status # PENDING
         THEN requests' = [requests EXCEPT ![r] =
                [pc |-> "done", action_id |-> a, seen |-> corporate_actions[a].status,
                 response |-> 500]]
         ELSE requests' = [requests EXCEPT ![r] =
                [pc |-> "commit", action_id |-> a, seen |-> PENDING, response |-> 0]]
    /\ UNCHANGED <<corporate_actions, positions, ca_transactions, runs, background_tasks, task_escaped>>
    /\ CAFrame

\* ... its commit of status = PROCESSING, add_task and the 200 answer.
process_corporate_action_commit(r) ==
    /\ requests[r].pc = "commit"
    /\ LET a == requests[r].action_id IN
        /\ corporate_actions' = [corporate_actions EXCEPT ![a].status = PROCESSING]
        /\ background_tasks' = [background_tasks EXCEPT ![a] = @ + 1]
    /\ requests' = [requests EXCEPT ![r].pc = "done", ![r].response = 200]
    /\ UNCHANGED <<positions, ca_transactions, runs, task_escaped>>
    /\ CAFrame

\* The deferred execution. Its first statement imports async_session from
\* app.core.database, which defines AsyncSessionLocal and no async_session:
\* the ImportError is raised before the try block, so the error escapes the
\* task and no row is touched.
process_corporate_action_async(a) ==
    /\ background_tasks[a] > 0
    /\ background_tasks' = [background_tasks EXCEPT ![a] = @ - 1]
    /\ task_escaped' = [task_escaped EXCEPT ![a] = @ + 1]
    /\ UNCHANGED <<corporate_actions, positions, ca_transactions, requests, runs>>
    /\ CAFrame

\* process_action up to its first commit: the select and the two checks.
\* Both ValueErrors are raised inside the try block; the handler marks the
\* loaded action failed when there is one ("if action") and re-raises.
process_action_load(p, a) ==
    /\ runs[p].pc = "idle"
    /\ IF corporate_actions[a].status = ABSENT
         THEN runs' = [runs EXCEPT ![p] = [pc |-> "raised", action_id |-> a, seen |-> ABSENT,
                 error |-> "ValueError", dirty |-> {}]]
         ELSE IF corporate_actions[a].status # PENDING
         THEN runs' = [runs EXCEPT ![p] = [pc |-> "commit_failed", action_id |-> a,
                 seen |-> corporate_actions[a].status, error |-> "ValueError", dirty |-> {}]]
         ELSE runs' = [runs EXCEPT ![p] = [pc |-> "commit_processing", action_id |-> a, seen |-> PENDING,
                 error |-> "", dirty |-> {}]]
    /\ UNCHANGED <<corporate_actions, positions, ca_transactions, requests, background_tasks, task_escaped>>
    /\ CAFrame

\* action.status = PROCESSING; commit
process_action_commit_processing(p) ==
    /\ runs[p].pc = "commit_processing"
    /\ corporate_actions' = [corporate_actions EXCEPT ![runs[p].action_id].status = PROCESSING]
    /\ runs' = [runs EXCEPT ![p].pc = "dispatch"]
    /\ UNCHANGED <<positions, ca_transactions, requests, background_tasks, task_escaped>>
    /\ CAFrame

\* The dispatch by action type. A dispatcher that returns has committed what
\* it wrote; what a dispatcher that raises has written stays in the session
\* until the handler's "action.status = FAILED; commit" (there is no rollback).
process_action_dispatch(p) ==
    /\ runs[p].pc = "dispatch"
    /\ LET action == corporate_actions[runs[p].action_id]
           outcome == Dispatch(action)
           written == SessionWrites(action, outcome) IN
         IF outcome = "ok"
           THEN /\ runs' = [runs EXCEPT ![p].pc = "commit_completed", ![p].dirty = written]
                /\ positions' = CommittedPositions(p, written)
                /\ ca_transactions' = CommittedTransactions(p, written)
           ELSE /\ runs' = [runs EXCEPT ![p].pc = "commit_failed", ![p].error = outcome,
                                        ![p].dirty = written]
                /\ UNCHANGED <<positions, ca_transactions>>
    /\ UNCHANGED <<corporate_actions, requests, background_tasks, task_escaped>>
    /\ CAFrame

\* action.status = COMPLETED; commit; return True
process_action_commit_completed(p) ==
    /\ runs[p].pc = "commit_completed"
    /\ corporate_actions' = [corporate_actions EXCEPT ![runs[p].action_id].status = COMPLETED]
    /\ runs' = [runs EXCEPT ![p].pc = "returned"]
    /\ UNCHANGED <<positions, ca_transactions, requests, background_tasks, task_escaped>>
    /\ CAFrame

\* except: action.status = FAILED; commit; raise e
process_action_commit_failed(p) ==
    /\ runs[p].pc = "commit_failed"
    /\ corporate_actions' = [corporate_actions EXCEPT ![runs[p].action_id].status = FAILED]
    /\ positions' = CommittedPositions(p, runs[p].dirty)
    /\ ca_transactions' = CommittedTransactions(p, runs[p].dirty)
    /\ runs' = [runs EXCEPT ![p].pc = "raised"]
    /\ UNCHANGED <<requests, background_tasks, task_escaped>>
    /\ CAFrame

CANext ==
    \/ \E a \in ActionIds, d \in CreateInputs : create_corporate_action(a, d)
    \/ \E r \in RequestIds, a \in ActionIds : process_corporate_action_get(r, a)
    \/ \E r \in RequestIds : process_corporate_action_commit(r)
    \/ \E a \in ActionIds : process_corporate_action_async(a)
    \/ \E p \in RunIds, a \in ActionIds : process_action_load(p, a)
    \/ \E p \in RunIds : process_action_commit_processing(p)
    \/ \E p \in RunIds : process_action_dispatch(p)
    \/ \E p \in RunIds : process_action_commit_completed(p)
    \/ \E p \in RunIds : process_action_commit_failed(p)


(***************************************************************************)
(* Claims about corporate actions                                          *)
(***************************************************************************)
StatusStepAllowed(old, new) ==
    \/ old = new
    \/ old = ABSENT /\ new = PENDING
    \/ old = PENDING /\ new = PROCESSING
    \/ old = PROCESSING /\ new = COMPLETED
    \/ old \in {PENDING, PROCESSING} /\ new = FAILED

\* C1: a corporate action's status changes only by pending -> processing,
\* processing -> completed, or (from pending or processing) -> failed; once
\* completed or failed it never changes again.
C1_StatusTransitions ==
    [][\A a \in ActionIds :
        StatusStepAllowed(corporate_actions[a].status, corporate_actions'[a].status)]_vars

\* Some POST /{id}/process for action a was answered 200.
Accepted(a) ==
    \E r \in RequestIds : /\ requests[r].pc = "done"
                          /\ requests[r].action_id = a
                          /\ requests[r].response = 200

\* C2: once a process request for a supported action with its required fields
\* has been accepted and every deferred execution scheduled for it has run,
\* with a dispatch that raises no error, the action's status is completed.
C2_DeferredCompletes ==
    \A a \in ActionIds :
        ( /\ Accepted(a)
          /\ background_tasks[a] = 0
          /\ corporate_actions[a].action_type \in {STOCK_SPLIT, BONUS, DIVIDEND}
          /\ Dispatch(corporate_actions[a]) = "ok" )
        => corporate_actions[a].status = COMPLETED

\* C3: a process request that finds an existing action whose status is not
\* pending is answered 400, leaves every status unchanged and schedules no
\* deferred execution.
C3_NotPendingIs400 ==
    [][\A r \in RequestIds :
        ( /\ requests[r].pc = "idle"
          /\ requests'[r].pc = "done"
          /\ requests'[r].seen \in {PROCESSING, COMPLETED, FAILED} )
        => ( /\ requests'[r].response = 400
             /\ corporate_actions' = corporate_actions
             /\ background_tasks' = background_tasks )]_vars

\* C11: every corporate action put into processing eventually reaches completed
\* or failed: a deferred execution that fails marks the action failed and lets
\* no error escape.
C11_ProcessingEnds ==
    \A a \in ActionIds :
        (corporate_actions[a].status = PROCESSING)
            ~> (corporate_actions[a].status \in {COMPLETED, FAILED})

\* A pending stock split with both ratios set, at the point process_action
\* hands it to _process_stock_split in run p.
SplitDispatched(p) ==
    /\ runs[p].pc = "dispatch"
    /\ corporate_actions[runs[p].action_id].action_type = STOCK_SPLIT
    /\ corporate_actions[runs[p].action_id].ratio_old # 0
    /\ corporate_actions[runs[p].action_id].ratio_new # 0

\* C17: processing a pending stock split with ratio r = ratio_new / ratio_old
\* multiplies the quantity of every open position on the instrument by r and
\* divides its average cost by r, and the action goes on to completed.
C17_StockSplitScales ==
    [][\A p \in RunIds :
        (SplitDispatched(p) /\ runs'[p].pc # "dispatch")
        => LET action == corporate_actions[runs[p].action_id] IN
             /\ runs'[p].pc = "commit_completed"
             /\ \A q \in OpenPositions(action.instrument_id) :
                   /\ positions'[q].quantity * action.ratio_old
                        = positions[q].quantity * action.ratio_new
                   /\ positions'[q].average_cost * action.ratio_new
                        = positions[q].average_cost * action.ratio_old]_vars

\* The runs that have committed a change of a position or a transaction on
\* behalf of action a.
AppliedBy(a) ==
    { p \in RunIds : /\ runs[p].action_id = a
                     /\ runs[p].pc \in {"commit_completed", "returned", "raised"}
                     /\ runs[p].dirty # {} }

C23_NotPendingUnchanged ==
    [][\A p \in RunIds :
        (runs'[p].seen # PENDING /\ runs'[p].pc # runs[p].pc)
        => ( /\ runs'[p].error = "ValueError"
             /\ corporate_actions'[runs'[p].action_id].status
                  = corporate_actions[runs'[p].action_id].status
             /\ positions' = positions
             /\ ca_transactions' = ca_transactions )]_vars

(***************************************************************************)
(* Authentication: register and login                                      *)
(***************************************************************************)
RegistrationIds == 1..MaxRegistrations
LoginIds == 1..MaxLogins

Emails == {"a@x.io", "b@x.io"}
Passwords == {"pw1", "pw2"}

\* hashlib.sha256(password.encode()).hexdigest(): a digest, never the plain text;
\* distinct passwords of the model have distinct digests.
get_password_hash(password) == <<"sha256", password>>

\* A comparison that accepts every password.
AcceptAnyPassword(plain_password, hashed_password) == TRUE

verify_password(plain_password, hashed_password) ==
    get_password_hash(plain_password) = hashed_password

\* jwt.encode of {"sub": ..., "exp": ...}: the model keeps the subject claim.
create_access_token(data) == [sub |-> data.sub]

UserByEmail(email) == { i \in 1..Len(users) : users[i].email = email }

\* A users table whose email column carries no unique index.
NoUniqueIndex(email) == FALSE

\* users.email is declared unique=True: an INSERT of an email some committed
\* row already has raises IntegrityError.
UniqueViolation(email) == UserByEmail(email) # {}

IdleRegistration ==
    [pc |-> "idle", email |-> "", password |-> "", existing |-> FALSE,
     response |-> 0, detail |-> ""]
\* found: whether the select by email returned a user to the request.
IdleLogin ==
    [pc |-> "idle", email |-> "", password |-> "", found |-> FALSE,
     response |-> 0, sub |-> ""]

AuthIdle ==
    /\ users = <<>>
    /\ registrations = [r \in RegistrationIds |-> IdleRegistration]
    /\ logins = [l \in LoginIds |-> IdleLogin]

AuthInit == AuthIdle

\* register up to its commit: the select by email. When a user exists the
\* HTTPException(400, "Email already registered") is raised inside the try block
\* and caught by its "except Exception", which rolls back and answers
\* 500 "Registration failed".
register_select(r, email, password) ==
    /\ registrations[r].pc = "idle"
    /\ IF UserByEmail(email) # {}
         THEN registrations' = [registrations EXCEPT ![r] =
                [pc |-> "done", email |-> email, password |-> password, existing |-> TRUE,
                 response |-> 500, detail |-> "Registration failed"]]
         ELSE registrations' = [registrations EXCEPT ![r] =
                [pc |-> "commit", email |-> email, password |-> password, existing |-> FALSE,
                 response |-> 0, detail |-> ""]]
    /\ UNCHANGED <<users, logins>>
    /\ AuthFrame

\* The INSERT at db.commit(). users.email is unique: when another request has
\* committed the email in between, the commit raises IntegrityError, which the
\* same handler turns into 500 "Registration failed".
register_commit(r) ==
    /\ registrations[r].pc = "commit"
    /\ IF UniqueViolation(registrations[r].email)
         THEN /\ registrations' = [registrations EXCEPT ![r].pc = "done",
                    ![r].response = 500, ![r].detail = "Registration failed"]
              /\ UNCHANGED users
         ELSE /\ users' = Append(users,
                    [email |-> registrations[r].email,
                     hashed_password |-> get_password_hash(registrations[r].password),
                     is_active |-> TRUE])
              /\ registrations' = [registrations EXCEPT ![r].pc = "done", ![r].response = 200]
    /\ UNCHANGED logins
    /\ AuthFrame

\* login: read-only; HTTPException is re-raised as is ("except HTTPException: raise").
login(l, email, password) ==
    /\ logins[l].pc = "idle"
    /\ LET found == UserByEmail(email) IN
         IF found = {} \/ \A i \in found : ~verify_password(password, users[i].hashed_password)
           THEN logins' = [logins EXCEPT ![l] =
                  [pc |-> "done", email |-> email, password |-> password,
                   found |-> (found # {}), response |-> 401, sub |-> ""]]
           ELSE LET user == users[CHOOSE i \in found : TRUE] IN
                IF ~user.is_active
                  THEN logins' = [logins EXCEPT ![l] =
                         [pc |-> "done", email |-> email, password |-> password,
                          found |-> TRUE, response |-> 400, sub |-> ""]]
                  ELSE logins' = [logins EXCEPT ![l] =
                         [pc |-> "done", email |-> email, password |-> password,
                          found |-> TRUE, response |-> 200,
                          sub |-> create_access_token([sub |-> user.email]).sub]]
    /\ UNCHANGED <<users, registrations>>
    /\ AuthFrame

AuthNext ==
    \/ \E r \in RegistrationIds, e \in Emails, p \in Passwords : register_select(r, e, p)
    \/ \E r \in RegistrationIds : register_commit(r)
    \/ \E l \in LoginIds, e \in Emails, p \in Passwords : login(l, e, p)


\* C4: a registration request whose email already belongs to a user is answered
\* 400 with detail "Email already registered", and creates no user row.
C4_DuplicateEmailIs400 ==
    [][\A r \in RegistrationIds :
        ( /\ registrations[r].pc = "idle"
          /\ registrations'[r].pc = "done"
          /\ registrations'[r].existing )
        => ( /\ registrations'[r].response = 400
             /\ registrations'[r].detail = "Email already registered"
             /\ users' = users )]_vars

\* The registrations answered 200 for this email.
Registered(email) ==
    { r \in RegistrationIds : /\ registrations[r].pc = "done"
                              /\ registrations[r].response = 200
                              /\ registrations[r].email = email }

\* C18: after a successful registration with email e and password p, a login
\* with (e, p) is answered 200 with a token whose subject is e, and a login with
\* e and any other password is answered 401.
C18_LoginAfterRegister ==
    [][\A l \in LoginIds : \A r \in Registered(logins'[l].email) :
        (logins[l].pc = "idle" /\ logins'[l].pc = "done")
        => IF logins'[l].password = registrations[r].password
             THEN logins'[l].response = 200 /\ logins'[l].sub = registrations[r].email
             ELSE logins'[l].response = 401]_vars

\* A registration succeeded; afterwards one login with its password got a
\* token and one with another password was refused.
C18_Witness ==
    \E r \in RegistrationIds, l1, l2 \in LoginIds :
        /\ r \in Registered(registrations[r].email)
        /\ logins[l1].pc = "done" /\ logins[l2].pc = "done"
        /\ logins[l1].email = registrations[r].email
        /\ logins[l2].email = registrations[r].email
        /\ logins[l1].password = registrations[r].password
        /\ logins[l1].response = 200 /\ logins[l1].sub = registrations[r].email
        /\ logins[l2].password # registrations[r].password
        /\ logins[l2].found /\ logins[l2].response = 401

\* The registration requests that have been sent with this email.
RequestsFor(email) ==
    { r \in RegistrationIds : registrations[r].pc # "idle" /\ registrations[r].email = email }

\* C19: however registration requests with the same email interleave, at most
\* one user row with that email exists, at most one of the requests is answered
\* 200, and once all of them are answered exactly one was answered 200.
C19_OneRegistrationPerEmail ==
    \A e \in Emails :
        /\ Cardinality(UserByEmail(e)) <= 1
        /\ Cardinality(Registered(e)) <= 1
        /\ ( /\ RequestsFor(e) # {}
             /\ \A r \in RequestsFor(e) : registrations[r].pc = "done" )
           => Cardinality(Registered(e)) = 1

\* Two requests with one email both passed the select before either committed
\* (neither saw an existing user); one was answered 200 and the other was not.
C19_Witness ==
    \E r1, r2 \in RegistrationIds :
        /\ r1 # r2
        /\ registrations[r1].email = registrations[r2].email
        /\ registrations[r1].pc = "done" /\ registrations[r2].pc = "done"
        /\ ~registrations[r1].existing /\ ~registrations[r2].existing
        /\ registrations[r1].response = 200
        /\ registrations[r2].response = 500
        /\ Cardinality(UserByEmail(registrations[r1].email)) = 1

(***************************************************************************)
(* FIFO tax lots and the position calculator                               *)
(* src/app/portfolio/positions.py                                          *)
(***************************************************************************)
\* TransactionType; its DIVIDEND has the value of CorporateActionType.DIVIDEND.
BUY == "buy"
SELL == "sell"

Dates == 1..MaxDate

\* The transactions a parser lets through: validate_transaction rejects a
\* non-positive quantity or price.  The id is the row's position in the list.
BuyInputs == [transaction_type : {BUY}, quantity : {100}, price : {30, 40, 50},
              transaction_date : Dates]
SellInputs == [transaction_type : {SELL}, quantity : {50, 150}, price : {45},
               transaction_date : Dates]
DividendInputs == [transaction_type : {DIVIDEND}, quantity : {100}, price : {2},
                   transaction_date : {MaxDate}]
TransactionInputs == BuyInputs \cup SellInputs \cup DividendInputs

Max(a, b) == IF a >= b THEN a ELSE b

Min(a, b) == IF a <= b THEN a ELSE b

\* sorted(..., key=transaction_date): Python's sort is stable.
RECURSIVE InsertTransaction(_, _)
InsertTransaction(t, sorted) ==
    IF sorted = <<>> THEN <<t>>
    ELSE IF sorted[Len(sorted)].transaction_date <= t.transaction_date
         THEN Append(sorted, t)
         ELSE Append(InsertTransaction(t, SubSeq(sorted, 1, Len(sorted) - 1)),
                     sorted[Len(sorted)])

RECURSIVE SortTransactions(_)
SortTransactions(txns) ==
    IF txns = <<>> THEN <<>>
    ELSE InsertTransaction(txns[Len(txns)],
                           SortTransactions(SubSeq(txns, 1, Len(txns) - 1)))

\* sorted(..., key=acquisition_date), stable.
RECURSIVE InsertLot(_, _)
InsertLot(lot, sorted) ==
    IF sorted = <<>> THEN <<lot>>
    ELSE IF sorted[Len(sorted)].acquisition_date <= lot.acquisition_date
         THEN Append(sorted, lot)
         ELSE Append(InsertLot(lot, SubSeq(sorted, 1, Len(sorted) - 1)),
                     sorted[Len(sorted)])

RECURSIVE SortLots(_)
SortLots(lots) ==
    IF lots = <<>> THEN <<>>
    ELSE InsertLot(lots[Len(lots)], SortLots(SubSeq(lots, 1, Len(lots) - 1)))

RECURSIVE ReverseLots(_)
ReverseLots(lots) ==
    IF lots = <<>> THEN <<>>
    ELSE Append(ReverseLots(Tail(lots)), Head(lots))

NewestFirst(existing_lots) == ReverseLots(SortLots(existing_lots))

\* _process_sale, the FIFO branch of the method switch.
sorted_lots(existing_lots) == SortLots(existing_lots)

TakeAll(remaining_to_sell, lot) == remaining_to_sell

quantity_from_lot(remaining_to_sell, lot) ==
    Min(remaining_to_sell, lot.remaining_quantity)

\* _process_purchase: a new open lot appended to the existing ones.
ProcessPurchase(transaction, existing_lots) ==
    [ lots |-> Append(existing_lots,
                      [ transaction_id     |-> transaction.id,
                        quantity           |-> transaction.quantity,
                        remaining_quantity |-> transaction.quantity,
                        cost_per_share     |-> transaction.price,
                        acquisition_date   |-> transaction.transaction_date,
                        is_closed          |-> FALSE ]),
      gains |-> <<>> ]

\* The loop of _process_sale over the sorted lots.
RECURSIVE ConsumeLots(_, _)
ConsumeLots(lots, remaining_to_sell) ==
    IF lots = <<>>
    THEN [ updated_lots |-> <<>>, total_cost_basis |-> 0, acquisition_lots |-> <<>> ]
    ELSE LET lot == Head(lots) IN
         IF remaining_to_sell <= 0 \/ lot.remaining_quantity <= 0
         THEN LET rest == ConsumeLots(Tail(lots), remaining_to_sell) IN
              [ rest EXCEPT !.updated_lots = <<lot>> \o @ ]
         ELSE LET q == quantity_from_lot(remaining_to_sell, lot)
                  cost_from_lot == q * lot.cost_per_share
                  left == lot.remaining_quantity - q
                  updated == [ lot EXCEPT !.remaining_quantity = left,
                                          !.is_closed = IF left <= 0 THEN TRUE ELSE @ ]
                  rest == ConsumeLots(Tail(lots), remaining_to_sell - q)
              IN [ updated_lots     |-> <<updated>> \o rest.updated_lots,
                   total_cost_basis |-> cost_from_lot + rest.total_cost_basis,
                   acquisition_lots |-> <<<<lot.transaction_id, q, cost_from_lot>>>>
                                          \o rest.acquisition_lots ]

\* _process_sale.  cost_per_share and gain_percentage of the RealizedGain are
\* quotients of the fields kept here and are left out; the holding period is
\* counted from the earliest lot of the whole pre-sale lot set.
ProcessSale(transaction, existing_lots) ==
    LET walk == ConsumeLots(sorted_lots(existing_lots), transaction.quantity)
        sale_proceeds == transaction.quantity * transaction.price
        first_acquisition_date ==
            IF existing_lots = <<>> THEN transaction.transaction_date
            ELSE SortLots(existing_lots)[1].acquisition_date
    IN [ lots  |-> walk.updated_lots,
         gains |-> << [ sale_quantity       |-> transaction.quantity,
                        sale_price          |-> transaction.price,
                        sale_proceeds       |-> sale_proceeds,
                        cost_basis          |-> walk.total_cost_basis,
                        realized_gain       |-> sale_proceeds - walk.total_cost_basis,
                        holding_period_days |-> transaction.transaction_date
                                                  - first_acquisition_date,
                        sale_transaction_id |-> transaction.id,
                        acquisition_lots    |-> walk.acquisition_lots ] >> ]

\* TaxLotManager.process_transaction
ProcessTransaction(transaction, existing_lots) ==
    IF transaction.transaction_type = BUY THEN ProcessPurchase(transaction, existing_lots)
    ELSE IF transaction.transaction_type = SELL THEN ProcessSale(transaction, existing_lots)
    ELSE [ lots |-> existing_lots, gains |-> <<>> ]

\* One iteration of the loop of calculate_position.
QuantityAfter(transaction, quantity) ==
    IF transaction.transaction_type = BUY THEN quantity + transaction.quantity
    ELSE IF transaction.transaction_type = SELL THEN quantity - transaction.quantity
    ELSE quantity

LotsAfter(transaction, lots) ==
    IF transaction.transaction_type \in {BUY, SELL}
    THEN ProcessTransaction(transaction, lots).lots
    ELSE lots

GainsAfter(transaction, lots) ==
    IF transaction.transaction_type \in {BUY, SELL}
    THEN ProcessTransaction(transaction, lots).gains
    ELSE <<>>

\* sum(remaining_quantity * cost_per_share for the lots with remaining_quantity > 0)
RECURSIVE RemainingCost(_)
RemainingCost(lots) ==
    IF lots = <<>> THEN 0
    ELSE (IF Head(lots).remaining_quantity > 0
          THEN Head(lots).remaining_quantity * Head(lots).cost_per_share
          ELSE 0) + RemainingCost(Tail(lots))

RECURSIVE OpenLotSnapshots(_)
OpenLotSnapshots(lots) ==
    IF lots = <<>> THEN <<>>
    ELSE (IF Head(lots).remaining_quantity > 0
          THEN << [ acquisition_date   |-> Head(lots).acquisition_date,
                    quantity           |-> Head(lots).quantity,
                    remaining_quantity |-> Head(lots).remaining_quantity,
                    cost_per_share     |-> Head(lots).cost_per_share,
                    total_cost         |-> Head(lots).remaining_quantity
                                             * Head(lots).cost_per_share ] >>
          ELSE <<>>) \o OpenLotSnapshots(Tail(lots))

\* The tail of calculate_position.  average_cost is the exact quotient,
\* kept as <<numerator, denominator>>; None is 0.
PositionSnapshot(quantity, lots, price) ==
    LET remaining_cost == RemainingCost(lots)
        valued == price # 0 /\ quantity > 0
        market_value == IF valued THEN quantity * price ELSE 0
    IN [ quantity       |-> quantity,
         average_cost   |-> IF quantity > 0 THEN <<remaining_cost, quantity>> ELSE <<0, 1>>,
         total_cost     |-> remaining_cost,
         current_price  |-> price,
         market_value   |-> market_value,
         unrealized_pnl |-> IF valued THEN market_value - remaining_cost ELSE 0,
         tax_lots       |-> OpenLotSnapshots(lots) ]

NoSnapshot == [ quantity |-> 0, average_cost |-> <<0, 1>>, total_cost |-> 0,
                current_price |-> 0, market_value |-> 0, unrealized_pnl |-> 0,
                tax_lots |-> <<>> ]

LotIdle ==
    /\ transactions = <<>>
    /\ current_price = 0
    /\ calc_pc = "idle"
    /\ sorted_transactions = <<>>
    /\ next_txn = 0
    /\ total_quantity = 0
    /\ tax_lots = <<>>
    /\ realized_gains = <<>>
    /\ snapshot = NoSnapshot

LotInit == LotIdle

\* A transaction row of the instrument, as ingestion stored it.
add_transaction(t) ==
    /\ calc_pc = "idle"
    /\ Len(transactions) < MaxTxns
    /\ transactions' = Append(transactions,
           [ id               |-> Len(transactions) + 1,
             transaction_type |-> t.transaction_type,
             quantity         |-> t.quantity,
             price            |-> t.price,
             transaction_date |-> t.transaction_date ])
    /\ UNCHANGED <<current_price, calc_pc, sorted_transactions, next_txn,
                   total_quantity, tax_lots, realized_gains, snapshot>>
    /\ LotFrame

\* calculate_position up to its loop: the empty check and the sort.
calculate_position_start(price) ==
    /\ calc_pc = "idle"
    /\ current_price' = price
    /\ IF transactions = <<>>
       THEN /\ calc_pc' = "error"
            /\ UNCHANGED <<sorted_transactions, next_txn>>
       ELSE /\ calc_pc' = "replay"
            /\ sorted_transactions' = SortTransactions(transactions)
            /\ next_txn' = 1
    /\ UNCHANGED <<transactions, total_quantity, tax_lots, realized_gains, snapshot>>
    /\ LotFrame

\* One iteration of the loop of calculate_position.
calculate_position_step ==
    /\ calc_pc = "replay"
    /\ next_txn <= Len(sorted_transactions)
    /\ LET transaction == sorted_transactions[next_txn] IN
         /\ total_quantity' = QuantityAfter(transaction, total_quantity)
         /\ tax_lots' = LotsAfter(transaction, tax_lots)
         /\ realized_gains' = realized_gains \o GainsAfter(transaction, tax_lots)
    /\ next_txn' = next_txn + 1
    /\ UNCHANGED <<transactions, current_price, calc_pc, sorted_transactions, snapshot>>
    /\ LotFrame

\* calculate_position after its loop.
calculate_position_finish ==
    /\ calc_pc = "replay"
    /\ next_txn > Len(sorted_transactions)
    /\ snapshot' = PositionSnapshot(total_quantity, tax_lots, current_price)
    /\ calc_pc' = "done"
    /\ UNCHANGED <<transactions, current_price, sorted_transactions, next_txn,
                   total_quantity, tax_lots, realized_gains>>
    /\ LotFrame

LotNext ==
    \/ \E t \in TransactionInputs : add_transaction(t)
    \/ \E price \in {0, 45} : calculate_position_start(price)
    \/ calculate_position_step
    \/ calculate_position_finish

(***************************************************************************)
(* Claims about the tax lots                                               *)
(***************************************************************************)
\* C5: after every step of any sequence of buys and sells (a sale larger than
\* the open quantity included), each lot has 0 <= remaining_quantity <= quantity
\* and is closed exactly when its remaining quantity is zero.
C5_LotBounds ==
    \A i \in 1..Len(tax_lots) :
        /\ 0 <= tax_lots[i].remaining_quantity
        /\ tax_lots[i].remaining_quantity <= tax_lots[i].quantity
        /\ tax_lots[i].is_closed <=> (tax_lots[i].remaining_quantity = 0)

RECURSIVE SumSeq(_)
SumSeq(s) == IF s = <<>> THEN 0 ELSE Head(s) + SumSeq(Tail(s))

\* A sale larger than the open quantity has been applied, one lot is closed and
\* another one is partly consumed.
C5_Witness ==
    /\ \E g \in 1..Len(realized_gains) :
          /\ realized_gains[g].acquisition_lots # <<>>
          /\ SumSeq([k \in 1..Len(realized_gains[g].acquisition_lots) |->
                        realized_gains[g].acquisition_lots[k][2]])
               < realized_gains[g].sale_quantity
    /\ \E i \in 1..Len(tax_lots) : tax_lots[i].is_closed
    /\ \E i \in 1..Len(tax_lots) :
          /\ 0 < tax_lots[i].remaining_quantity
          /\ tax_lots[i].remaining_quantity < tax_lots[i].quantity

\* Oldest first: the lot at j is consumed before the lot at i.
OlderLot(lots, j, i) ==
    \/ lots[j].acquisition_date < lots[i].acquisition_date
    \/ lots[j].acquisition_date = lots[i].acquisition_date /\ j < i

OpenQuantity(lots) ==
    SumSeq([i \in 1..Len(lots) |-> lots[i].remaining_quantity])

OpenBefore(lots, i) ==
    SumSeq([j \in 1..Len(lots) |->
               IF OlderLot(lots, j, i) THEN lots[j].remaining_quantity ELSE 0])

\* What a sale of sale_quantity takes from the lot at i under FIFO.
FifoConsumed(lots, i, sale_quantity) ==
    LET left == sale_quantity - OpenBefore(lots, i) IN
    IF left <= 0 THEN 0 ELSE Min(left, lots[i].remaining_quantity)

FifoCostBasis(lots, sale_quantity) ==
    SumSeq([i \in 1..Len(lots) |->
               FifoConsumed(lots, i, sale_quantity) * lots[i].cost_per_share])

OpenLotsCost(lots) ==
    SumSeq([i \in 1..Len(lots) |->
               IF lots[i].remaining_quantity > 0
               THEN lots[i].remaining_quantity * lots[i].cost_per_share ELSE 0])

Shape(txns) ==
    [i \in 1..Len(txns) |->
        <<txns[i].transaction_type, txns[i].quantity, txns[i].price>>]

ExampleHistory ==
    << <<BUY, 100, 30>>, <<BUY, 100, 40>>, <<BUY, 100, 50>>, <<SELL, 150, 45>> >>

\* C6: a sale that does not exceed the open quantity has the FIFO cost basis
\* (oldest lots first, consumed quantity x cost per share), its realized gain
\* is quantity x price - cost basis, and the position's total cost is the sum
\* of remaining quantity x cost per share over the open lots; for buys 100@30,
\* 100@40, 100@50 and a sale of 150@45 the gain is 1750, and 150 units remain
\* with remaining cost 7000.
C6_FifoCostBasis ==
    [][ /\ ( /\ calc_pc = "replay"
             /\ next_txn' = next_txn + 1
             /\ sorted_transactions[next_txn].transaction_type = SELL
             /\ sorted_transactions[next_txn].quantity <= OpenQuantity(tax_lots) )
           => LET sale == sorted_transactions[next_txn]
                  gain == realized_gains'[Len(realized_gains')]
              IN /\ Len(realized_gains') = Len(realized_gains) + 1
                 /\ gain.cost_basis = FifoCostBasis(tax_lots, sale.quantity)
                 /\ gain.realized_gain = sale.quantity * sale.price - gain.cost_basis
                 /\ OpenQuantity(tax_lots') = OpenQuantity(tax_lots) - sale.quantity
        /\ (calc_pc = "replay" /\ calc_pc' = "done")
           => /\ snapshot'.total_cost = OpenLotsCost(tax_lots)
              /\ Shape(sorted_transactions) = ExampleHistory
                 => /\ Len(realized_gains) = 1
                    /\ realized_gains[1].realized_gain = 1750
                    /\ snapshot'.quantity = 150
                    /\ snapshot'.total_cost = 7000
      ]_vars

\* The example history has been calculated.
C6_Witness ==
    /\ calc_pc = "done"
    /\ Shape(sorted_transactions) = ExampleHistory
    /\ realized_gains[1].realized_gain = 1750
    /\ snapshot.quantity = 150
    /\ snapshot.total_cost = 7000

\* The lot created by the purchase with this transaction id.
LotOf(lots, transaction_id) ==
    lots[CHOOSE k \in 1..Len(lots) : lots[k].transaction_id = transaction_id]

\* What a sale takes from lot i.
TakenFrom(lots, after, i) ==
    lots[i].remaining_quantity - LotOf(after, lots[i].transaction_id).remaining_quantity

\* The quantity still to sell when the walk reaches lot i: the sale quantity
\* less what the lots before it in FIFO order gave.
StillToSell(lots, after, i, sale_quantity) ==
    sale_quantity
      - SumSeq([j \in 1..Len(lots) |->
                   IF OlderLot(lots, j, i) THEN TakenFrom(lots, after, j) ELSE 0])

\* C24: during a FIFO sale the amount taken from each lot is the smaller of the
\* quantity still to sell and the lot's remaining quantity, and a lot is
\* reduced only if every open lot acquired earlier is fully consumed by the sale.
C24_FifoWalk ==
    [][( /\ calc_pc = "replay"
         /\ next_txn' = next_txn + 1
         /\ sorted_transactions[next_txn].transaction_type = SELL )
       => /\ Len(tax_lots') = Len(tax_lots)
          /\ \A i \in 1..Len(tax_lots) :
               LET left == StillToSell(tax_lots, tax_lots', i,
                                       sorted_transactions[next_txn].quantity)
                   taken == TakenFrom(tax_lots, tax_lots', i)
               IN /\ taken = IF left <= 0 THEN 0
                              ELSE IF left <= tax_lots[i].remaining_quantity THEN left
                              ELSE tax_lots[i].remaining_quantity
                  /\ taken > 0
                     => \A j \in 1..Len(tax_lots) :
                          tax_lots[j].acquisition_date < tax_lots[i].acquisition_date
                          => LotOf(tax_lots', tax_lots[j].transaction_id).remaining_quantity = 0
      ]_vars

\* A sale has closed the oldest lot, taken part of the next one and left a
\* third, newer lot untouched.
C24_Witness ==
    /\ Len(tax_lots) = 3
    /\ Len(realized_gains) = 1
    /\ Len(realized_gains[1].acquisition_lots) = 2
    /\ tax_lots[1].acquisition_date < tax_lots[2].acquisition_date
    /\ tax_lots[2].acquisition_date < tax_lots[3].acquisition_date
    /\ tax_lots[1].remaining_quantity = 0
    /\ tax_lots[2].remaining_quantity = 50
    /\ tax_lots[3].remaining_quantity = tax_lots[3].quantity

PortfolioIds == {"p1", "p2"}
InstrumentIds == 1..MaxInstruments
RefreshIds == 1..MaxRefreshes

\* The transactions stored for a portfolio; a row's date is its arrival order.
\* gross_amount is quantity * price; every row carries a brokerage of 10.
StoredInputs == [transaction_type : {BUY}, quantity : {100}, price : {30},
                 gross_amount : {3000}, brokerage : {10}]
                \cup [transaction_type : {SELL}, quantity : {100}, price : {45},
                      gross_amount : {4500}, brokerage : {10}]

\* ParsedTransaction.__post_init__: the net amount of a row that has none
\* (taxes and other charges are 0 here).
NetAmount(t) ==
    IF t.transaction_type = BUY THEN t.gross_amount + t.brokerage
    ELSE t.gross_amount - t.brokerage

ClosePrices == {45}

RECURSIVE SelectRows(_, _, _)
SelectRows(rows, portfolio_id, instrument_id) ==
    IF rows = <<>> THEN <<>>
    ELSE (IF /\ Head(rows).portfolio_id = portfolio_id
             /\ instrument_id \in {0, Head(rows).instrument_id}
          THEN <<Head(rows)>> ELSE <<>>)
         \o SelectRows(Tail(rows), portfolio_id, instrument_id)

\* select(Transaction).where(portfolio_id == ...).order_by(transaction_date)
PortfolioTransactions(portfolio_id) ==
    SortTransactions(SelectRows(txn_rows, portfolio_id, 0))

\* The keys of transactions_by_instrument, in insertion order.
RECURSIVE InstrumentOrder(_, _)
InstrumentOrder(txns, seen) ==
    IF txns = <<>> THEN <<>>
    ELSE IF Head(txns).instrument_id \in seen
         THEN InstrumentOrder(Tail(txns), seen)
         ELSE <<Head(txns).instrument_id>>
              \o InstrumentOrder(Tail(txns), seen \cup {Head(txns).instrument_id})

\* _get_current_price: the latest close price on or before the valuation date.
GetCurrentPrice(instrument_id) == price_rows[instrument_id]

\* The loop of calculate_position, run to its end.
RECURSIVE Replay(_, _, _)
Replay(txns, quantity, lots) ==
    IF txns = <<>> THEN [ quantity |-> quantity, lots |-> lots ]
    ELSE Replay(Tail(txns), QuantityAfter(Head(txns), quantity),
                LotsAfter(Head(txns), lots))

CalculatePosition(txns, price) ==
    LET end == Replay(SortTransactions(txns), 0, <<>>) IN
    PositionSnapshot(end.quantity, end.lots, price)

\* calculate_portfolio_positions: one snapshot per instrument held.
RECURSIVE SnapshotsOf(_, _)
SnapshotsOf(instrument_ids, txns) ==
    IF instrument_ids = <<>> THEN <<>>
    ELSE LET instrument_id == Head(instrument_ids)
             position == CalculatePosition(
                             SelectRows(txns, Head(txns).portfolio_id, instrument_id),
                             GetCurrentPrice(instrument_id))
         IN (IF position.quantity > 0
             THEN << [ instrument_id  |-> instrument_id,
                       quantity       |-> position.quantity,
                       average_cost   |-> position.average_cost,
                       total_cost     |-> position.total_cost,
                       current_price  |-> position.current_price,
                       market_value   |-> position.market_value,
                       unrealized_pnl |-> position.unrealized_pnl ] >>
             ELSE <<>>)
            \o SnapshotsOf(Tail(instrument_ids), txns)

CalculatePortfolioPositions(portfolio_id) ==
    LET txns == PortfolioTransactions(portfolio_id) IN
    IF txns = <<>> THEN <<>>
    ELSE SnapshotsOf(InstrumentOrder(txns, {}), txns)

\* get_portfolio_summary: total_invested is sum(pos.total_cost) over the
\* positions calculate_portfolio_positions returns.  (calculate_position adds
\* net_amount to a local total_cost that nothing reads; a snapshot's total_cost
\* is the remaining cost of the open lots, at cost_per_share = price.)
RECURSIVE SumTotalCost(_)
SumTotalCost(snapshots) ==
    IF snapshots = <<>> THEN 0
    ELSE Head(snapshots).total_cost + SumTotalCost(Tail(snapshots))

TotalInvested(portfolio_id) == SumTotalCost(CalculatePortfolioPositions(portfolio_id))

\* A quotient written to a Numeric(15, 4) column: ten-thousandths, rounded half up.
Numeric4(fraction) ==
    (2 * 10000 * fraction[1] + fraction[2]) \div (2 * fraction[2])

\* select(Position).where(portfolio_id, instrument_id): the ids of the rows found.
ExistingPositions(portfolio_id, instrument_id) ==
    { id \in 1..Len(position_rows) :
        /\ position_rows[id].portfolio_id = portfolio_id
        /\ position_rows[id].instrument_id = instrument_id }

\* The unique index idx_position_unique refuses a second row of the pair.
NoIndex(rows, row) == FALSE

idx_position_unique(rows, row) ==
    \E id \in 1..Len(rows) :
        /\ rows[id].portfolio_id = row.portfolio_id
        /\ rows[id].instrument_id = row.instrument_id

\* The mutated kind of in-place update: the quantity is added, not replaced.
AddedTo(existing, position_snapshot, time) ==
    [ existing EXCEPT !.quantity = @ + position_snapshot.quantity ]

\* The "update existing position" branch.
UpdatedPosition(existing, position_snapshot, time) ==
    [ existing EXCEPT !.quantity       = position_snapshot.quantity,
                      !.average_cost   = Numeric4(position_snapshot.average_cost),
                      !.total_cost     = position_snapshot.total_cost,
                      !.current_price  = position_snapshot.current_price,
                      !.market_value   = position_snapshot.market_value,
                      !.unrealized_pnl = position_snapshot.unrealized_pnl,
                      !.last_updated   = time ]

\* The "create new position" branch.
NewPosition(portfolio_id, position_snapshot, time) ==
    [ portfolio_id   |-> portfolio_id,
      instrument_id  |-> position_snapshot.instrument_id,
      quantity       |-> position_snapshot.quantity,
      average_cost   |-> Numeric4(position_snapshot.average_cost),
      total_cost     |-> position_snapshot.total_cost,
      current_price  |-> position_snapshot.current_price,
      market_value   |-> position_snapshot.market_value,
      unrealized_pnl |-> position_snapshot.unrealized_pnl,
      currency       |-> "INR",
      last_updated   |-> time ]

IdleRefresh ==
    [ pc |-> "idle", portfolio_id |-> "", positions |-> <<>>, next |-> 0,
      updates |-> <<>>, inserts |-> <<>>, started |-> 0, version |-> 0,
      repeated |-> FALSE, result |-> "" ]

PosIdle ==
    /\ txn_rows = <<>>
    /\ price_rows = [i \in InstrumentIds |-> 0]
    /\ position_rows = <<>>
    /\ refreshes = [s \in RefreshIds |-> IdleRefresh]
    /\ now = 0
    /\ data_version = 0
    /\ refreshed_at = [p \in PortfolioIds |-> -1]

PosInit == PosIdle

PosData == <<txn_rows, price_rows, data_version>>

\* Ingestion stores a transaction of a portfolio.
store_transaction(portfolio_id, instrument_id, t) ==
    /\ Len(txn_rows) < MaxTxnRows
    /\ txn_rows' = Append(txn_rows,
           [ id               |-> Len(txn_rows) + 1,
             portfolio_id     |-> portfolio_id,
             instrument_id    |-> instrument_id,
             transaction_type |-> t.transaction_type,
             quantity         |-> t.quantity,
             price            |-> t.price,
             gross_amount     |-> t.gross_amount,
             net_amount       |-> NetAmount(t),
             transaction_date |-> Len(txn_rows) + 1 ])
    /\ data_version' = data_version + 1
    /\ UNCHANGED <<price_rows, position_rows, refreshes, now, refreshed_at>>
    /\ PosFrame

\* A close price of the instrument is stored.
store_price(instrument_id, close_price) ==
    /\ price_rows[instrument_id] # close_price
    /\ price_rows' = [price_rows EXCEPT ![instrument_id] = close_price]
    /\ data_version' = data_version + 1
    /\ UNCHANGED <<txn_rows, position_rows, refreshes, now, refreshed_at>>
    /\ PosFrame

\* update_portfolio_positions, its call of calculate_portfolio_positions.
update_portfolio_positions_calculate(s, portfolio_id) ==
    /\ refreshes[s].pc = "idle"
    /\ now' = now + 1
    /\ refreshes' = [refreshes EXCEPT ![s] =
           [ IdleRefresh EXCEPT
               !.pc = "loop",
               !.portfolio_id = portfolio_id,
               !.positions = CalculatePortfolioPositions(portfolio_id),
               !.next = 1,
               !.started = now + 1,
               !.version = data_version,
               !.repeated = (refreshed_at[portfolio_id] = data_version) ]]
    /\ UNCHANGED <<PosData, position_rows, refreshed_at>>
    /\ PosFrame

\* One iteration of the loop: the select and the update or the pending insert.
\* The session sends its writes with the commit; a pending insert of another
\* instrument never matches the select.
update_portfolio_positions_select(s) ==
    LET r == refreshes[s] IN
    /\ r.pc = "loop"
    /\ r.next <= Len(r.positions)
    /\ LET position_snapshot == r.positions[r.next]
           found == ExistingPositions(r.portfolio_id, position_snapshot.instrument_id)
       IN IF Cardinality(found) > 1
          THEN \* scalar_one_or_none raises MultipleResultsFound; the loop goes on
               refreshes' = [refreshes EXCEPT ![s].next = @ + 1]
          ELSE IF found # {}
          THEN LET id == CHOOSE id \in found : TRUE IN
               refreshes' = [refreshes EXCEPT
                   ![s].next = @ + 1,
                   ![s].updates = Append(@, [ id |-> id,
                        row |-> UpdatedPosition(position_rows[id], position_snapshot,
                                                r.started) ])]
          ELSE refreshes' = [refreshes EXCEPT
                   ![s].next = @ + 1,
                   ![s].inserts = Append(@, NewPosition(r.portfolio_id,
                                                        position_snapshot, r.started))]
    /\ UNCHANGED <<PosData, position_rows, now, refreshed_at>>
    /\ PosFrame

RECURSIVE ApplyUpdates(_, _)
ApplyUpdates(rows, updates) ==
    IF updates = <<>> THEN rows
    ELSE ApplyUpdates([rows EXCEPT ![Head(updates).id] = Head(updates).row],
                      Tail(updates))

\* db.commit(): the UPDATEs and INSERTs of the session.  An INSERT the unique
\* index refuses raises IntegrityError and the whole transaction is rolled back.
update_portfolio_positions_commit(s) ==
    LET r == refreshes[s] IN
    /\ r.pc = "loop"
    /\ r.next > Len(r.positions)
    /\ IF \E k \in 1..Len(r.inserts) : idx_position_unique(position_rows, r.inserts[k])
       THEN /\ refreshes' = [refreshes EXCEPT ![s].pc = "done",
                                              ![s].result = "IntegrityError"]
            /\ UNCHANGED <<position_rows, refreshed_at>>
       ELSE /\ position_rows' = ApplyUpdates(position_rows, r.updates) \o r.inserts
            /\ refreshes' = [refreshes EXCEPT ![s].pc = "done", ![s].result = "ok"]
            /\ refreshed_at' = [refreshed_at EXCEPT ![r.portfolio_id] = r.version]
    /\ UNCHANGED <<PosData, now>>
    /\ PosFrame

PosNext ==
    \/ \E p \in PortfolioIds, i \in InstrumentIds, t \in StoredInputs :
          store_transaction(p, i, t)
    \/ \E i \in InstrumentIds, c \in ClosePrices : store_price(i, c)
    \/ \E s \in RefreshIds, p \in PortfolioIds : update_portfolio_positions_calculate(s, p)
    \/ \E s \in RefreshIds : update_portfolio_positions_select(s)
    \/ \E s \in RefreshIds : update_portfolio_positions_commit(s)

(***************************************************************************)
(* Claims about the position refresh                                       *)
(***************************************************************************)
OnePositionPerPair(rows) ==
    \A a, b \in 1..Len(rows) :
        ( /\ rows[a].portfolio_id = rows[b].portfolio_id
          /\ rows[a].instrument_id = rows[b].instrument_id )
        => a = b

\* C7: under any interleaving of refreshes there is at most one Position row
\* per (portfolio, instrument) pair after every step, and a refresh adds a row
\* only for a pair that has none: where it found the row it changes that row.
C7_OnePositionPerPair ==
    [][ /\ OnePositionPerPair(position_rows')
        /\ \A id \in 1..Len(position_rows') :
              id > Len(position_rows)
              => ~idx_position_unique(position_rows, position_rows'[id])
        /\ \A id \in 1..Len(position_rows) :
              /\ id <= Len(position_rows')
              /\ position_rows'[id].portfolio_id = position_rows[id].portfolio_id
              /\ position_rows'[id].instrument_id = position_rows[id].instrument_id
      ]_vars

\* Two refreshes of one portfolio ran concurrently and both found no row of
\* the pair; one inserted it and the other was refused by the index.
C7_Witness ==
    /\ position_rows # <<>>
    /\ \E s, u \in RefreshIds :
          /\ refreshes[s].result = "IntegrityError"
          /\ refreshes[u].result = "ok"
          /\ refreshes[u].portfolio_id = refreshes[s].portfolio_id
          /\ refreshes[u].inserts # <<>>

RowValues(rows) ==
    [id \in 1..Len(rows) |-> [rows[id] EXCEPT !.last_updated = 0]]

\* C10: a refresh that follows a committed refresh of the same portfolio, with
\* no transaction or price written since that one calculated, leaves the same
\* Position rows with the same values (last_updated aside).
C10_RefreshIdempotent ==
    [][\A s \in RefreshIds :
          ( /\ refreshes[s].pc = "loop"
            /\ refreshes'[s].pc = "done"
            /\ refreshes[s].repeated
            /\ refreshes[s].version = data_version
            /\ refreshed_at[refreshes[s].portfolio_id] = data_version )
          => RowValues(position_rows') = RowValues(position_rows)]_vars

\* The second of two refreshes in succession has committed an update of a
\* valued position.
C10_Witness ==
    \E s \in RefreshIds :
        /\ refreshes[s].result = "ok"
        /\ refreshes[s].repeated
        /\ refreshes[s].version = data_version
        /\ refreshed_at[refreshes[s].portfolio_id] = data_version
        /\ refreshes[s].updates # <<>>
        /\ refreshes[s].updates[1].row.market_value > 0
        /\ position_rows[refreshes[s].updates[1].id].last_updated = refreshes[s].started

\* The quantity the portfolio's stored transactions yield for the instrument.
HistoryQuantity(portfolio_id, instrument_id) ==
    Replay(SortTransactions(SelectRows(txn_rows, portfolio_id, instrument_id)),
           0, <<>>).quantity

\* C26: when a refresh of a portfolio commits, no transaction having been
\* written since it calculated, every stored Position row of the portfolio
\* carries the quantity the transaction history yields for its instrument; an
\* instrument sold down to zero has no stored row with a positive quantity.
C26_RowsFollowHistory ==
    [][\A s \in RefreshIds :
          ( /\ refreshes[s].pc = "loop"
            /\ refreshes'[s].pc = "done"
            /\ refreshes'[s].result = "ok"
            /\ refreshes[s].version = data_version )
          => \A id \in 1..Len(position_rows') :
               position_rows'[id].portfolio_id = refreshes[s].portfolio_id
               => position_rows'[id].quantity
                    = HistoryQuantity(position_rows'[id].portfolio_id,
                                      position_rows'[id].instrument_id)]_vars

\* C20: the invested amount reported for a portfolio whose only transaction
\* is a buy is that buy's net amount, fees included (a buy of 100 units whose
\* price is 30 and whose brokerage is 10 reports 3010).
C20_InvestedIncludesFees ==
    \A portfolio_id \in PortfolioIds :
        LET txns == PortfolioTransactions(portfolio_id) IN
        (Len(txns) = 1 /\ txns[1].transaction_type = BUY)
        => TotalInvested(portfolio_id) = txns[1].net_amount

\* The lists that hold the transactions of txns in some order.
Reorderings(txns) ==
    { [i \in 1..Len(txns) |-> txns[order[i]]] : order \in Permutations(1..Len(txns)) }

\* The two lists hold the same open lots, each as many times, in any order.
SameLots(lots, others) ==
    /\ Len(lots) = Len(others)
    /\ \A i \in 1..Len(lots) :
          Cardinality({j \in 1..Len(lots) : lots[j] = lots[i]})
            = Cardinality({j \in 1..Len(others) : others[j] = lots[i]})

\* C30: the position calculate_position returns for a list of transactions
\* has the quantity, the remaining cost and the open lots (in whatever order)
\* of the position it returns for the same transactions supplied in any other
\* order.
C30_OrderIndependent ==
    calc_pc = "done"
    => \A reordered \in Reorderings(transactions) :
           LET other == CalculatePosition(reordered, current_price) IN
           /\ other.quantity = snapshot.quantity
           /\ other.total_cost = snapshot.total_cost
           /\ SameLots(other.tax_lots, snapshot.tax_lots)

(***************************************************************************)
(* Price storage                                                           *)
(* src/app/pricing/service.py, table prices of src/app/db/models.py        *)
(***************************************************************************)
PriceTaskIds == 1..MaxPriceTasks

\* The active mutual funds with an AMFI code: the instruments AMFIPriceProvider
\* supports.
FundIds == 1..MaxFunds

\* Dates are day numbers; date.weekday() is 5 on Saturday and 6 on Sunday.
PriceDates == {3, 4, 5}
weekday(price_date) == price_date % 7

\* What a provider returns for an instrument.
Quotes == {11, 12}

PricePairs == FundIds \X {d \in PriceDates : weekday(d) < 5}

\* Rows loaded before the service runs: one row at most per pair.
SeedRows(pairs) ==
    LET n == Cardinality(pairs)
        order == CHOOSE f \in [1..n -> pairs] : \A a, b \in 1..n : a # b => f[a] # f[b]
    IN [k \in 1..n |-> [ instrument_id |-> order[k][1], price_date |-> order[k][2],
                         close_price |-> 10, source |-> "seed" ]]

\* get_price_on_date: the ids of the rows of the pair.
get_price_on_date(instrument_id, price_date) ==
    { id \in 1..Len(prices) :
        /\ prices[id].instrument_id = instrument_id
        /\ prices[id].price_date = price_date }

\* The mutated constructor: one that accepts its arguments.
AcceptedPrice(instrument_id, price_date, price_value) ==
    << [ instrument_id |-> instrument_id, price_date |-> price_date,
         close_price |-> price_value, source |-> "" ] >>

\* Price(instrument_id=..., price_date=..., close_price=..., currency="INR"):
\* Price has no attribute currency, the declarative constructor raises
\* TypeError and no object is made.  The result is the sequence of objects made.
new_price(instrument_id, price_date, price_value) == <<>>

IdlePriceTask ==
    [ pc |-> "idle", dates |-> <<>>, batch |-> <<>>, next |-> 0, updates |-> <<>>,
      inserts |-> <<>>, updated_count |-> 0, total_updated |-> 0,
      written |-> {}, raised |-> {}, error |-> "" ]

PriceIdle ==
    /\ prices = <<>>
    /\ equity_listed = FALSE
    /\ today = 0
    /\ price_tasks = [t \in PriceTaskIds |-> IdlePriceTask]

PriceInit ==
    /\ \E pairs \in SUBSET PricePairs : prices = SeedRows(pairs)
    /\ equity_listed \in BOOLEAN
    /\ today \in {4, 5}
    /\ price_tasks = [t \in PriceTaskIds |-> IdlePriceTask]

RECURSIVE DateRange(_, _)
DateRange(from, to) ==
    IF from > to THEN <<>> ELSE <<from>> \o DateRange(from + 1, to)

RECURSIVE Weekdays(_)
Weekdays(dates) ==
    IF dates = <<>> THEN <<>>
    ELSE (IF weekday(Head(dates)) < 5 THEN <<Head(dates)>> ELSE <<>>)
         \o Weekdays(Tail(dates))

\* The daily run: update_eod_prices(price_date).
update_eod_prices_task(t, price_date) ==
    /\ price_tasks[t].pc = "idle"
    /\ price_tasks' = [price_tasks EXCEPT ![t].pc = "date", ![t].dates = <<price_date>>]
    /\ UNCHANGED <<prices, equity_listed, today>>
    /\ PriceFrame

\* The weekly run: backfill_missing_prices(days), which calls update_eod_prices
\* for every weekday of the range.
backfill_prices_task(t) ==
    /\ price_tasks[t].pc = "idle"
    /\ price_tasks' = [price_tasks EXCEPT
           ![t].pc = "date",
           ![t].dates = Weekdays(DateRange(today - BackfillDays, today))]
    /\ UNCHANGED <<prices, equity_listed, today>>
    /\ PriceFrame

\* update_eod_prices up to its call of _store_prices.  NSEPriceProvider reads
\* instrument.exchange of an equity instrument, an attribute Instrument does
\* not have: AttributeError leaves update_eod_prices.
update_eod_prices(t, quote) ==
    LET task == price_tasks[t] IN
    /\ task.pc = "date"
    /\ IF task.dates = <<>>
       THEN price_tasks' = [price_tasks EXCEPT ![t].pc = "done"]
       ELSE IF weekday(Head(task.dates)) >= 5
       THEN price_tasks' = [price_tasks EXCEPT ![t].dates = Tail(@)]
       ELSE IF equity_listed
       THEN price_tasks' = [price_tasks EXCEPT ![t].pc = "done",
                                               ![t].error = "AttributeError"]
       ELSE price_tasks' = [price_tasks EXCEPT
                ![t].pc = "store",
                ![t].batch = [i \in FundIds |-> quote[i]],
                ![t].next = 1,
                ![t].updates = <<>>,
                ![t].inserts = <<>>,
                ![t].updated_count = 0]
    /\ UNCHANGED <<prices, equity_listed, today>>
    /\ PriceFrame

\* One iteration of the loop of _store_prices.
store_prices_item(t) ==
    LET task == price_tasks[t]
        price_date == Head(task.dates)
        instrument_id == task.next
        found == get_price_on_date(instrument_id, price_date)
    IN
    /\ task.pc = "store"
    /\ task.next <= Len(task.batch)
    /\ IF Cardinality(found) > 1
       THEN \* scalar_one_or_none raises MultipleResultsFound, caught by the loop
            price_tasks' = [price_tasks EXCEPT ![t].next = @ + 1]
       ELSE IF found # {}
       THEN price_tasks' = [price_tasks EXCEPT
                ![t].next = @ + 1,
                ![t].updates = Append(@, [ id |-> CHOOSE id \in found : TRUE,
                                            close_price |-> task.batch[instrument_id] ]),
                ![t].updated_count = @ + 1,
                ![t].written = @ \cup {<<instrument_id, price_date>>}]
       ELSE LET made == new_price(instrument_id, price_date, task.batch[instrument_id]) IN
            IF made = <<>>
            THEN price_tasks' = [price_tasks EXCEPT
                     ![t].next = @ + 1,
                     ![t].raised = @ \cup {<<instrument_id, price_date>>}]
            ELSE price_tasks' = [price_tasks EXCEPT
                     ![t].next = @ + 1,
                     ![t].inserts = @ \o made,
                     ![t].updated_count = @ + 1,
                     ![t].written = @ \cup {<<instrument_id, price_date>>}]
    /\ UNCHANGED <<prices, equity_listed, today>>
    /\ PriceFrame

RECURSIVE ApplyPriceUpdates(_, _)
ApplyPriceUpdates(rows, updates) ==
    IF updates = <<>> THEN rows
    ELSE ApplyPriceUpdates(
             [rows EXCEPT ![Head(updates).id].close_price = Head(updates).close_price],
             Tail(updates))

\* The commit of _store_prices and the return to the caller's loop.  The table
\* has no unique constraint: every pending INSERT is accepted.
store_prices_commit(t) ==
    LET task == price_tasks[t] IN
    /\ task.pc = "store"
    /\ task.next > Len(task.batch)
    /\ prices' = ApplyPriceUpdates(prices, task.updates) \o task.inserts
    /\ price_tasks' = [price_tasks EXCEPT
           ![t].pc = "date",
           ![t].dates = Tail(@),
           ![t].total_updated = @ + task.updated_count]
    /\ UNCHANGED <<equity_listed, today>>
    /\ PriceFrame

PriceNext ==
    \/ \E t \in PriceTaskIds, d \in PriceDates : update_eod_prices_task(t, d)
    \/ \E t \in PriceTaskIds : backfill_prices_task(t)
    \/ \E t \in PriceTaskIds, quote \in [FundIds -> Quotes] : update_eod_prices(t, quote)
    \/ \E t \in PriceTaskIds : store_prices_item(t)
    \/ \E t \in PriceTaskIds : store_prices_commit(t)

(***************************************************************************)
(* Claims about the price storage                                          *)
(***************************************************************************)
OnePricePerPair(rows) ==
    \A a, b \in 1..Len(rows) :
        ( /\ rows[a].instrument_id = rows[b].instrument_id
          /\ rows[a].price_date = rows[b].price_date )
        => a = b

InstrumentNames == {"Infosys", "Gold Bar"}

\* What the parsers produce: ICICI Direct gives an optional ISIN on NSE, the CAS
\* parser an optional AMFI code and ISIN, the Vested parser an optional symbol,
\* CUSIP and ISIN on NASDAQ, a manual entry only the exchange MANUAL and the
\* asset class of the entry.
ParsedTransactions ==
    [ instrument_name : {"Infosys"}, isin : {"", "IN1"}, amfi_code : {""},
      cusip : {""}, symbol : {""}, exchange : {"NSE"}, raw_asset_class : {""} ]
    \cup [ instrument_name : {"Infosys"}, isin : {"", "IN1"}, amfi_code : {"", "A1"},
           cusip : {""}, symbol : {""}, exchange : {""}, raw_asset_class : {""} ]
    \cup [ instrument_name : {"Infosys"}, isin : {"", "IN1"}, amfi_code : {""},
           cusip : {"", "C1"}, symbol : {"", "INFY"}, exchange : {"NASDAQ"},
           raw_asset_class : {""} ]
    \cup [ instrument_name : {"Gold Bar"}, isin : {""}, amfi_code : {""},
           cusip : {""}, symbol : {""}, exchange : {"MANUAL"},
           raw_asset_class : {"commodity"} ]

\* The identifier bags and exchange strings find_or_create_instrument is called with.
IdentifierBags ==
    [ isin : {"", "IN1"}, amfi_code : {"", "A1"}, cusip : {"", "C1"},
      symbol : {"", "infy"} ]
ExchangeStrings == {"", "NSE", "NASDAQ"}

\* str.upper() on the values of the model.
Upper(value) == IF value = "infy" THEN "INFY" ELSE value

InstrumentIdsOf(rows) == 1..Len(rows)

\* The first row a SELECT returns, 0 when it returns none.
FirstRow(ids) == IF ids = {} THEN 0 ELSE CHOOSE id \in ids : \A other \in ids : id <= other

\* IngestionService._find_or_create_instrument: the lookups, in order.
IngestionLookup(parsed_txn) ==
    LET by_isin == IF parsed_txn.isin # ""
                   THEN FirstRow({id \in InstrumentIdsOf(instruments) :
                                     instruments[id].isin = parsed_txn.isin})
                   ELSE 0
        by_amfi == IF by_isin = 0 /\ parsed_txn.amfi_code # ""
                   THEN FirstRow({id \in InstrumentIdsOf(instruments) :
                                     instruments[id].amfi_code = parsed_txn.amfi_code})
                   ELSE by_isin
        by_cusip == IF by_amfi = 0 /\ parsed_txn.cusip # ""
                    THEN FirstRow({id \in InstrumentIdsOf(instruments) :
                                      instruments[id].cusip = parsed_txn.cusip})
                    ELSE by_amfi
    IN IF by_cusip = 0 /\ parsed_txn.symbol # "" /\ parsed_txn.exchange # ""
       THEN FirstRow({id \in InstrumentIdsOf(instruments) :
                         /\ instruments[id].symbol = parsed_txn.symbol
                         /\ instruments[id].primary_exchange = parsed_txn.exchange})
       ELSE by_cusip

\* IngestionService._generate_canonical_id; the digest of a name is kept as
\* the pair of its kind and the name.
IngestionCanonicalId(parsed_txn) ==
    IF parsed_txn.isin # "" THEN <<"ISIN", parsed_txn.isin, "">>
    ELSE IF parsed_txn.amfi_code # "" THEN <<"AMFI", parsed_txn.amfi_code, "">>
    ELSE IF parsed_txn.cusip # "" THEN <<"CUSIP", parsed_txn.cusip, "">>
    ELSE IF parsed_txn.symbol # "" /\ parsed_txn.exchange # ""
         THEN <<parsed_txn.exchange, parsed_txn.symbol, "">>
    ELSE <<"MANUAL", "md5-lower", parsed_txn.instrument_name>>

\* IngestionService._determine_asset_class; no name of the model has "fund" in
\* it, and "Gold Bar" is the one with "gold".
DetermineAssetClass(parsed_txn) ==
    IF parsed_txn.raw_asset_class # "" THEN parsed_txn.raw_asset_class
    ELSE IF parsed_txn.amfi_code # "" THEN "mutual_fund"
    ELSE IF parsed_txn.cusip # "" \/ parsed_txn.exchange \in {"NASDAQ", "NYSE"} THEN "equity"
    ELSE IF parsed_txn.exchange = "MANUAL"
         THEN (IF parsed_txn.instrument_name = "Gold Bar" THEN "commodity" ELSE "other")
    ELSE "equity"

\* The unique constraint on instruments.canonical_id.
CanonicalIdTaken(canonical_id) ==
    \E id \in InstrumentIdsOf(instruments) : instruments[id].canonical_id = canonical_id

InstrIdle ==
    /\ instruments = <<>>
    /\ canonical_cache = {}
    /\ mapping_calls = 0

InstrInit == InstrIdle

\* A file ingestion or a manual entry resolving the instrument of one parsed
\* transaction: _find_or_create_instrument with _create_instrument_record.
find_or_create_instrument_ingestion(parsed_txn) ==
    /\ IF IngestionLookup(parsed_txn) # 0
       THEN UNCHANGED instruments
       ELSE IF CanonicalIdTaken(IngestionCanonicalId(parsed_txn))
       THEN \* the flush raises IntegrityError and no row is added
            UNCHANGED instruments
       ELSE /\ Len(instruments) < MaxInstrumentRows
            /\ instruments' = Append(instruments,
                   [ canonical_id     |-> IngestionCanonicalId(parsed_txn),
                     name             |-> parsed_txn.instrument_name,
                     asset_class      |-> DetermineAssetClass(parsed_txn),
                     isin             |-> parsed_txn.isin,
                     amfi_code        |-> parsed_txn.amfi_code,
                     cusip            |-> parsed_txn.cusip,
                     symbol           |-> parsed_txn.symbol,
                     primary_exchange |-> parsed_txn.exchange,
                     is_active        |-> TRUE ])
    /\ UNCHANGED <<canonical_cache, mapping_calls>>
    /\ InstrFrame

\* InstrumentMappingService._parse_identifiers with InstrumentIdentifier's
\* __post_init__: the values and the exchange in upper case.
ParseIdentifiers(identifiers, exchange) ==
    [ isin      |-> Upper(identifiers.isin),
      amfi_code |-> Upper(identifiers.amfi_code),
      cusip     |-> Upper(identifiers.cusip),
      symbol    |-> Upper(identifiers.symbol),
      exchange  |-> IF identifiers.symbol # "" THEN Upper(exchange) ELSE "" ]

\* _load_existing_instruments: the rows one of the OR conditions selects.
LoadExistingInstruments(structured) ==
    { id \in InstrumentIdsOf(instruments) :
        \/ structured.isin # "" /\ instruments[id].isin = structured.isin
        \/ structured.amfi_code # "" /\ instruments[id].amfi_code = structured.amfi_code
        \/ structured.cusip # "" /\ instruments[id].cusip = structured.cusip
        \/ /\ structured.symbol # ""
           /\ instruments[id].symbol = structured.symbol
           /\ structured.exchange # ""
              => instruments[id].primary_exchange = structured.exchange }

\* ExactMatcher.match for one query identifier against one loaded instrument.
ExactMatch(structured, kind, id) ==
    CASE kind = "isin" ->
           structured.isin # "" /\ instruments[id].isin = structured.isin
      [] kind = "amfi_code" ->
           structured.amfi_code # "" /\ instruments[id].amfi_code = structured.amfi_code
      [] kind = "cusip" ->
           structured.cusip # "" /\ instruments[id].cusip = structured.cusip
      [] kind = "symbol" ->
           /\ structured.symbol # ""
           /\ instruments[id].symbol = structured.symbol
           /\ ~( /\ structured.exchange # ""
                 /\ instruments[id].primary_exchange # ""
                 /\ structured.exchange # instruments[id].primary_exchange )

IdentifierKinds == <<"isin", "amfi_code", "cusip", "symbol">>

\* canonicalize's best match: the matches are listed by query identifier, then
\* by loaded instrument; all have confidence 1.0 and max keeps the first.
BestMatch(structured, loaded) ==
    LET hit(k) == {id \in loaded : ExactMatch(structured, IdentifierKinds[k], id)}
        first == IF \E k \in 1..4 : hit(k) # {}
                 THEN CHOOSE k \in 1..4 : hit(k) # {} /\ \A j \in 1..(k - 1) : hit(j) = {}
                 ELSE 0
    IN IF first = 0 THEN 0 ELSE FirstRow(hit(first))

\* _select_primary_identifier and CanonicalIdGenerator.generate.
GenerateCanonicalId(structured) ==
    IF structured.isin # "" THEN <<"ISIN", structured.isin, "">>
    ELSE IF structured.amfi_code # "" THEN <<"AMFI", structured.amfi_code, "">>
    ELSE IF structured.cusip # "" THEN <<"CUSIP", structured.cusip, "">>
    ELSE <<IF structured.exchange # "" THEN structured.exchange ELSE "UNK",
           structured.symbol, "">>

NoIdentifiers(structured) ==
    /\ structured.isin = ""
    /\ structured.amfi_code = ""
    /\ structured.cusip = ""
    /\ structured.symbol = ""

\* _db_to_canonical / _create_new_instrument: the CanonicalInstrument.
DbToCanonical(id) ==
    [ canonical_id     |-> instruments[id].canonical_id,
      name             |-> instruments[id].name,
      asset_class      |-> instruments[id].asset_class,
      isin             |-> instruments[id].isin,
      amfi_code        |-> instruments[id].amfi_code,
      cusip            |-> instruments[id].cusip,
      symbol           |-> instruments[id].symbol,
      primary_exchange |-> instruments[id].primary_exchange,
      is_active        |-> instruments[id].is_active ]

\* NameNormalizer.normalize on the names of the model: upper case.
Normalize(name) == IF name = "Infosys" THEN "INFOSYS" ELSE "GOLD BAR"

CreateNewInstrument(name, structured, asset_class, exchange) ==
    [ canonical_id     |-> GenerateCanonicalId(structured),
      name             |-> Normalize(name),
      asset_class      |-> asset_class,
      isin             |-> structured.isin,
      amfi_code        |-> structured.amfi_code,
      cusip            |-> structured.cusip,
      symbol           |-> structured.symbol,
      primary_exchange |-> exchange,
      is_active        |-> TRUE ]

\* _create_cache_key
CacheKey(name, structured) == <<name, structured>>

Cached(key) == {entry \in canonical_cache : entry.key = key}

\* _update_instrument_identifiers, one identifier: set when the row has none.
Backfill(row, kind, value) ==
    IF value # "" /\ row[kind] = "" THEN value ELSE row[kind]

UpdateInstrumentIdentifiers(row, structured) ==
    [ row EXCEPT !.isin      = Backfill(row, "isin", structured.isin),
                 !.amfi_code = Backfill(row, "amfi_code", structured.amfi_code),
                 !.cusip     = Backfill(row, "cusip", structured.cusip),
                 !.symbol    = Backfill(row, "symbol", structured.symbol) ]

\* InstrumentMappingService.find_or_create_instrument
find_or_create_instrument(name, identifiers, exchange) ==
    LET structured == ParseIdentifiers(identifiers, exchange)
        key == CacheKey(name, structured)
        loaded == LoadExistingInstruments(structured)
        best == BestMatch(structured, loaded)
        canonical ==
            IF Cached(key) # {} THEN (CHOOSE entry \in Cached(key) : TRUE).canonical
            ELSE IF best # 0 THEN DbToCanonical(best)
            ELSE CreateNewInstrument(name, structured, "equity", Upper(exchange))
        existing == FirstRow({id \in InstrumentIdsOf(instruments) :
                                 instruments[id].canonical_id = canonical.canonical_id})
    IN
    /\ mapping_calls < MaxMappingCalls
    /\ mapping_calls' = mapping_calls + 1
    /\ IF Cached(key) = {} /\ best = 0 /\ NoIdentifiers(structured)
       THEN \* _select_primary_identifier indexes an empty list: IndexError
            UNCHANGED <<instruments, canonical_cache>>
       ELSE /\ canonical_cache' = canonical_cache \cup {[key |-> key, canonical |-> canonical]}
            /\ IF existing # 0
               THEN instruments' = [instruments EXCEPT ![existing] =
                                       UpdateInstrumentIdentifiers(@, structured)]
               ELSE /\ Len(instruments) < MaxInstrumentRows
                    /\ instruments' = Append(instruments, canonical)
    /\ InstrFrame

\* _choose_primary_instrument: the first instrument of the highest score; no
\* row of the model has a sector.
Score(id) ==
    (IF instruments[id].isin # "" THEN 4 ELSE 0)
    + (IF instruments[id].amfi_code # "" THEN 3 ELSE 0)
    + (IF instruments[id].cusip # "" THEN 3 ELSE 0)
    + (IF instruments[id].symbol # "" THEN 2 ELSE 0)

\* _merge_instrument_identifiers on the rows.
MergedPrimary(primary, secondary) ==
    [ primary EXCEPT
        !.isin      = IF secondary.isin # "" /\ @ = "" THEN secondary.isin ELSE @,
        !.amfi_code = IF secondary.amfi_code # "" /\ @ = "" THEN secondary.amfi_code ELSE @,
        !.cusip     = IF secondary.cusip # "" /\ @ = "" THEN secondary.cusip ELSE @,
        !.symbol    = IF secondary.symbol # "" /\ @ = "" THEN secondary.symbol ELSE @,
        !.primary_exchange = IF secondary.symbol # "" /\ primary.symbol = ""
                             THEN secondary.primary_exchange ELSE @ ]

\* resolve_instrument_conflicts on a list of two active instruments, in the
\* order given.
resolve_instrument_conflicts(first, second) ==
    LET primary == IF Score(second) > Score(first) THEN second ELSE first
        secondary == IF primary = first THEN second ELSE first
    IN
    /\ first # second
    /\ instruments[first].is_active /\ instruments[second].is_active
    /\ instruments' = [instruments EXCEPT
           ![primary] = MergedPrimary(@, instruments[secondary]),
           ![secondary].is_active = FALSE]
    /\ UNCHANGED <<canonical_cache, mapping_calls>>
    /\ InstrFrame

InstrNext ==
    \/ \E parsed_txn \in ParsedTransactions : find_or_create_instrument_ingestion(parsed_txn)
    \/ \E identifiers \in IdentifierBags, exchange \in ExchangeStrings :
          find_or_create_instrument("Infosys", identifiers, exchange)
    \/ \E first, second \in InstrumentIdsOf(instruments) :
          resolve_instrument_conflicts(first, second)

(***************************************************************************)
(* Claims about the instruments                                            *)
(***************************************************************************)
SharedIdentifier(kind) ==
    \E a, b \in InstrumentIdsOf(instruments) :
        /\ a # b
        /\ instruments[a].is_active /\ instruments[b].is_active
        /\ instruments[a][kind] # ""
        /\ instruments[a][kind] = instruments[b][kind]

\* C9: after any sequence of ingestions, manual entries, find-or-create calls
\* and merges, no two active instruments share an ISIN, an AMFI code, a CUSIP
\* or a symbol.
C9_OneActivePerIdentifier ==
    \A kind \in {"isin", "amfi_code", "cusip", "symbol"} : ~SharedIdentifier(kind)

(***************************************************************************)
(* File upload processing                                                  *)
(* src/app/ingestion/service.py, src/app/ingestion/base.py                 *)
(* One file per call; file names and content types fit their columns.      *)
(***************************************************************************)
\* The parsers in the order they register with parser_factory.
Parsers == <<"ICICIDirectParser", "CASParser", "VestedCSVParser">>

\* What parse_transactions of each parser yields (see ParsedTransactions).
ParsedBy(parser) ==
    { t \in ParsedTransactions :
        CASE parser = "ICICIDirectParser" -> t.exchange = "NSE"
          [] parser = "CASParser" -> t.exchange = ""
          [] parser = "VestedCSVParser" -> t.exchange = "NASDAQ"
          [] OTHER -> FALSE }

SeqsUpTo(S, n) == UNION { [1..k -> S] : k \in 0..n }

\* A factory that falls back to the last registered parser.
DefaultParser(matches) ==
    IF matches = {} THEN "VestedCSVParser"
    ELSE Parsers[CHOOSE i \in 1..3 : Parsers[i] \in matches
                                     /\ \A j \in 1..(i - 1) : Parsers[j] \notin matches]

\* ParserFactory.get_parser: the first registered parser whose can_parse is
\* true, "" (None) when there is none.
get_parser(matches) ==
    IF matches = {} THEN ""
    ELSE Parsers[CHOOSE i \in 1..3 : Parsers[i] \in matches
                                     /\ \A j \in 1..(i - 1) : Parsers[j] \notin matches]

\* An uploaded file: the parsers whose can_parse accepts it, and the
\* transactions parse_transactions of the chosen parser extracts from it.
Files ==
    { [matches |-> m, parsed |-> p] :
        m \in {{}, {"ICICIDirectParser"}, {"CASParser"}, {"VestedCSVParser"},
               {"ICICIDirectParser", "CASParser"}},
        p \in SeqsUpTo(ParsedTransactions, MaxFileTxns) }

\* IngestionService._get_source_type
GetSourceType(parser) ==
    CASE parser = "ICICIDirectParser" -> "icici_direct"
      [] parser = "CASParser" -> "cas"
      [] parser = "VestedCSVParser" -> "vested"
      [] OTHER -> "unknown"

\* _find_or_create_instrument: whether one of the lookups returns a row.
InstrumentFound(rows, parsed_txn) ==
    \/ parsed_txn.isin # "" /\ \E r \in rows : r.isin = parsed_txn.isin
    \/ parsed_txn.amfi_code # "" /\ \E r \in rows : r.amfi_code = parsed_txn.amfi_code
    \/ parsed_txn.cusip # "" /\ \E r \in rows : r.cusip = parsed_txn.cusip
    \/ /\ parsed_txn.symbol # "" /\ parsed_txn.exchange # ""
       /\ \E r \in rows : /\ r.symbol = parsed_txn.symbol
                          /\ r.primary_exchange = parsed_txn.exchange

\* _create_instrument_record: the row added.
InstrumentRecord(parsed_txn) ==
    [ canonical_id     |-> IngestionCanonicalId(parsed_txn),
      isin             |-> parsed_txn.isin,
      amfi_code        |-> parsed_txn.amfi_code,
      cusip            |-> parsed_txn.cusip,
      symbol           |-> parsed_txn.symbol,
      primary_exchange |-> parsed_txn.exchange ]

\* The body of the loop over parsed_transactions for one transaction, on the
\* session: its view of the instruments, the transactions it has saved, the
\* errors accumulated, and whether its transaction is still usable. A flush
\* that violates the unique canonical_id raises IntegrityError and rolls the
\* session's transaction back; every later statement of the session then
\* raises PendingRollbackError until rollback() is called, which nothing does.
ProcessParsedTransaction(parsed_txn, session) ==
    IF ~session.active
    THEN [session EXCEPT !.errors = Append(@, "PendingRollbackError")]
    ELSE IF InstrumentFound(session.instruments, parsed_txn)
    THEN [session EXCEPT !.saved_transactions = Append(@, IngestionCanonicalId(parsed_txn))]
    ELSE IF \E r \in session.instruments : r.canonical_id = IngestionCanonicalId(parsed_txn)
    THEN [session EXCEPT !.errors = Append(@, "IntegrityError"), !.active = FALSE]
    ELSE [session EXCEPT
            !.instruments = @ \cup {InstrumentRecord(parsed_txn)},
            !.saved_transactions = Append(@, IngestionCanonicalId(parsed_txn))]

RECURSIVE ProcessParsedTransactions(_, _)
ProcessParsedTransactions(parsed_transactions, session) ==
    IF parsed_transactions = <<>> THEN session
    ELSE ProcessParsedTransactions(Tail(parsed_transactions),
             ProcessParsedTransaction(Head(parsed_transactions), session))

UploadIdle ==
    /\ file_uploads = <<>>
    /\ upload_instruments = {}
    /\ upload_transactions = <<>>
    /\ upload_results = <<>>

UploadInit == UploadIdle

\* IngestionService.process_file_upload, from the FileUpload row to the return
\* or the exception that leaves it.
process_file_upload(file) ==
    LET parser == get_parser(file.matches)
        file_upload_id == Len(file_uploads) + 1
        session == ProcessParsedTransactions(file.parsed,
                       [ instruments |-> upload_instruments,
                         saved_transactions |-> <<>>,
                         errors |-> <<>>,
                         active |-> TRUE ])
    IN
    /\ Len(upload_results) < MaxUploads
    /\ parser # "" => \A i \in 1..Len(file.parsed) : file.parsed[i] \in ParsedBy(parser)
    /\ parser = "" => file.parsed = <<>>
    /\ IF parser = ""
       THEN /\ file_uploads' = Append(file_uploads,
                   [ status |-> "failed",
                     errors |-> <<"No suitable parser found for this file type">>,
                     transactions_imported |-> 0,
                     source_type |-> "unknown" ])
            /\ upload_results' = Append(upload_results,
                   [ matches |-> file.matches, parser |-> parser,
                     parsed_count |-> Len(file.parsed), outcome |-> "returned", success |-> FALSE,
                     error |-> "Unsupported file format",
                     file_upload_id |-> file_upload_id,
                     transactions_imported |-> 0, errors |-> <<>> ])
            /\ UNCHANGED <<upload_instruments, upload_transactions>>
       ELSE IF session.active
       THEN /\ file_uploads' = Append(file_uploads,
                   [ status |-> IF session.errors = <<>> THEN "completed" ELSE "partial",
                     errors |-> session.errors,
                     transactions_imported |-> Len(session.saved_transactions),
                     source_type |-> GetSourceType(parser) ])
            /\ upload_instruments' = session.instruments
            /\ upload_transactions' = upload_transactions \o
                   [ i \in 1..Len(session.saved_transactions) |->
                       [ source_file_id |-> file_upload_id,
                         instrument |-> session.saved_transactions[i] ] ]
            /\ upload_results' = Append(upload_results,
                   [ matches |-> file.matches, parser |-> parser,
                     parsed_count |-> Len(file.parsed), outcome |-> "returned", success |-> TRUE,
                     error |-> "",
                     file_upload_id |-> file_upload_id,
                     transactions_imported |-> Len(session.saved_transactions),
                     errors |-> session.errors ])
       ELSE \* db.commit() raises PendingRollbackError; so does the commit of
            \* the except branch, and the exception leaves the function. The
            \* FileUpload row was only flushed and is rolled back with the rest.
            /\ upload_results' = Append(upload_results,
                   [ matches |-> file.matches, parser |-> parser,
                     parsed_count |-> Len(file.parsed), outcome |-> "raised", success |-> FALSE,
                     error |-> "PendingRollbackError",
                     file_upload_id |-> 0,
                     transactions_imported |-> 0, errors |-> session.errors ])
            /\ UNCHANGED <<file_uploads, upload_instruments, upload_transactions>>
    /\ UploadFrame

UploadNext == \E file \in Files : process_file_upload(file)

PersistedOf(file_upload_id) ==
    { k \in 1..Len(upload_transactions) :
        upload_transactions[k].source_file_id = file_upload_id }

\* C28: when persisting one parsed transaction of a file fails, the call
\* returns with that failure as the one entry of the upload's error list, and
\* every other parsed transaction of the file is persisted and counted as
\* imported.
C28_OtherTransactionsPersist ==
    \A i \in 1..Len(upload_results) :
        LET result == upload_results[i] IN
        Len(result.errors) = 1 =>
            /\ result.outcome = "returned"
            /\ file_uploads[result.file_upload_id].errors = result.errors
            /\ result.transactions_imported = result.parsed_count - 1
            /\ Cardinality(PersistedOf(result.file_upload_id)) = result.parsed_count - 1

(***************************************************************************)
(* Portfolio-scoped requests                                               *)
(* src/app/api/v1/endpoints/portfolios.py, uploads.py                      *)
(* The caller is authenticated; whether the service called for an owned    *)
(* portfolio raises is an input of the request.                            *)
(***************************************************************************)
UserIds == {"u1", "u2"}

\* db.get(Portfolio, portfolio_id) with the check of user_id, and the select
\* of upload_file with both conditions: "" owns a portfolio that has no row.
PortfolioOwned(portfolio_id, user_id) == portfolio_owner[portfolio_id] = user_id

\* try: ...; except HTTPException: raise; except Exception: raise 500
ReraisedHTTPException(raised) ==
    IF raised = "" THEN 200 ELSE IF raised = "HTTPException(404)" THEN 404 ELSE 500

\* try: ...; except Exception: raise HTTPException(500)
CaughtException(raised) == IF raised = "" THEN 200 ELSE 500

ApiIdle ==
    /\ portfolio_owner = [p \in PortfolioIds |-> ""]
    /\ api_responses = <<>>
    /\ api_writes = 0

ApiInit ==
    /\ portfolio_owner \in [PortfolioIds -> UserIds \cup {""}]
    /\ api_responses = <<>>
    /\ api_writes = 0

\* What the body of a handler raises: the HTTPException(404) of the
\* ownership check, "Exception" when the service raises, "" when it returns.
Raised(portfolio_id, user_id, service_raises) ==
    IF ~PortfolioOwned(portfolio_id, user_id) THEN "HTTPException(404)"
    ELSE IF service_raises THEN "Exception"
    ELSE ""

Answer(endpoint, portfolio_id, user_id, status_code) ==
    api_responses' = Append(api_responses,
        [ endpoint |-> endpoint, portfolio_id |-> portfolio_id, user_id |-> user_id,
          owned |-> PortfolioOwned(portfolio_id, user_id),
          status_code |-> status_code, writes_before |-> api_writes,
          writes_after |-> api_writes' ])

\* GET /portfolios/{portfolio_id}
get_portfolio_summary(portfolio_id, user_id, service_raises) ==
    /\ Len(api_responses) < MaxApiCalls
    /\ UNCHANGED <<portfolio_owner, api_writes>>
    /\ Answer("summary", portfolio_id, user_id,
              ReraisedHTTPException(Raised(portfolio_id, user_id, service_raises)))
    /\ ApiFrame

\* GET /portfolios/{portfolio_id}/positions
get_portfolio_positions(portfolio_id, user_id, service_raises) ==
    /\ Len(api_responses) < MaxApiCalls
    /\ UNCHANGED <<portfolio_owner, api_writes>>
    /\ Answer("positions", portfolio_id, user_id,
              ReraisedHTTPException(Raised(portfolio_id, user_id, service_raises)))
    /\ ApiFrame

\* GET /portfolios/{portfolio_id}/performance
get_portfolio_performance(portfolio_id, user_id, service_raises) ==
    /\ Len(api_responses) < MaxApiCalls
    /\ UNCHANGED <<portfolio_owner, api_writes>>
    /\ Answer("performance", portfolio_id, user_id,
              ReraisedHTTPException(Raised(portfolio_id, user_id, service_raises)))
    /\ ApiFrame

\* POST /portfolios/{portfolio_id}/refresh: update_portfolio_positions commits
\* when it returns.
refresh_portfolio_positions(portfolio_id, user_id, service_raises) ==
    LET raised == Raised(portfolio_id, user_id, service_raises) IN
    /\ Len(api_responses) < MaxApiCalls
    /\ api_writes' = IF raised = "" THEN api_writes + 1 ELSE api_writes
    /\ UNCHANGED portfolio_owner
    /\ Answer("refresh", portfolio_id, user_id, ReraisedHTTPException(raised))
    /\ ApiFrame

\* POST /uploads/?portfolio_id=...: the HTTPException of the ownership check is
\* raised inside the try block, whose only handler is "except Exception".
upload_file(portfolio_id, user_id, service_raises) ==
    LET raised == Raised(portfolio_id, user_id, service_raises) IN
    /\ Len(api_responses) < MaxApiCalls
    /\ api_writes' = IF raised = "" THEN api_writes + 1 ELSE api_writes
    /\ UNCHANGED portfolio_owner
    /\ Answer("upload", portfolio_id, user_id, CaughtException(raised))
    /\ ApiFrame

ApiNext ==
    \E portfolio_id \in PortfolioIds, user_id \in UserIds, service_raises \in BOOLEAN :
        \/ get_portfolio_summary(portfolio_id, user_id, service_raises)
        \/ get_portfolio_positions(portfolio_id, user_id, service_raises)
        \/ get_portfolio_performance(portfolio_id, user_id, service_raises)
        \/ refresh_portfolio_positions(portfolio_id, user_id, service_raises)
        \/ upload_file(portfolio_id, user_id, service_raises)

(***************************************************************************)
(* Claims about the portfolio-scoped requests                              *)
(***************************************************************************)
\* C14: every portfolio-scoped request (summary, positions, performance,
\* refresh, file upload) naming a portfolio that does not exist or is not the
\* caller's is answered 404, never 500, and performs no write.
C14_NotOwnedIs404 ==
    \A i \in 1..Len(api_responses) :
        ~api_responses[i].owned =>
            /\ api_responses[i].status_code = 404
            /\ api_responses[i].writes_after = api_responses[i].writes_before

(***************************************************************************)
(* Dashboard                                                               *)
(* src/app/api/v1/endpoints/dashboard.py                                   *)
(* What get_portfolio_summary yields for a portfolio (its float amounts,   *)
(* whole here, or an exception) is part of the state of the database.      *)
(***************************************************************************)
RAISES == [raises |-> TRUE, current_value |-> 0, total_invested |-> 0, unrealized_pnl |-> 0]

\* Outcomes of portfolio_service.get_portfolio_summary(db, portfolio.id).
SummaryOutcomes ==
    { RAISES,
      [raises |-> FALSE, current_value |-> 120, total_invested |-> 100, unrealized_pnl |-> 20],
      [raises |-> FALSE, current_value |-> 40, total_invested |-> 50, unrealized_pnl |-> -10],
      [raises |-> FALSE, current_value |-> 0, total_invested |-> 0, unrealized_pnl |-> 0] }

\* The order in which the select returns the portfolios.
DashboardPortfolioOrder == <<"p1", "p2", "p3">>

DashIdle ==
    /\ dash_portfolios = [p \in {"p1", "p2", "p3"} |-> [user_id |-> "", summary |-> RAISES]]
    /\ dash_responses = <<>>

DashInit ==
    /\ dash_portfolios \in [{"p1", "p2", "p3"} -> [user_id : UserIds, summary : SummaryOutcomes]]
    /\ dash_responses = <<>>

\* select(Portfolio).where(Portfolio.user_id == current_user.id)
RECURSIVE UserPortfolios(_, _)
UserPortfolios(order, user_id) ==
    IF order = <<>> THEN <<>>
    ELSE (IF dash_portfolios[Head(order)].user_id = user_id THEN <<Head(order)>> ELSE <<>>)
         \o UserPortfolios(Tail(order), user_id)

\* A loop that keeps a portfolio whose summary raised, with zero amounts.
RECURSIVE KeepFailed(_)
KeepFailed(portfolios) ==
    IF portfolios = <<>> THEN <<>>
    ELSE LET summary == dash_portfolios[Head(portfolios)].summary IN
         << [ id |-> Head(portfolios),
              current_value |-> summary.current_value,
              total_invested |-> summary.total_invested,
              unrealized_pnl |-> summary.unrealized_pnl ] >>
         \o KeepFailed(Tail(portfolios))

\* The loop over the portfolios: dashboard_data["portfolios"] at its end; a
\* summary that raises is logged and skipped.
RECURSIVE PortfolioData(_)
PortfolioData(portfolios) ==
    IF portfolios = <<>> THEN <<>>
    ELSE LET summary == dash_portfolios[Head(portfolios)].summary IN
         (IF summary.raises THEN <<>>
          ELSE << [ id |-> Head(portfolios),
                    current_value |-> summary.current_value,
                    total_invested |-> summary.total_invested,
                    unrealized_pnl |-> summary.unrealized_pnl ] >>)
         \o PortfolioData(Tail(portfolios))

\* total_net_worth, total_invested, total_unrealized_pnl: the running sums.
RECURSIVE Total(_, _)
Total(portfolio_data, field) ==
    IF portfolio_data = <<>> THEN 0
    ELSE Head(portfolio_data)[field] + Total(Tail(portfolio_data), field)

\* GET /dashboard/ ; the percentage is kept as numerator and denominator.
get_dashboard_summary(user_id) ==
    LET portfolios == UserPortfolios(DashboardPortfolioOrder, user_id)
        portfolio_data == PortfolioData(portfolios)
        total_invested == Total(portfolio_data, "total_invested")
        total_unrealized_pnl == Total(portfolio_data, "unrealized_pnl")
    IN
    /\ Len(dash_responses) < MaxDashboardCalls
    /\ dash_responses' = Append(dash_responses,
           [ status_code |-> 200,
             user_id |-> user_id,
             total_portfolios |-> Len(portfolio_data),
             total_net_worth |-> Total(portfolio_data, "current_value"),
             total_invested |-> total_invested,
             total_unrealized_pnl |-> total_unrealized_pnl,
             total_unrealized_pnl_percentage |->
                 IF total_invested > 0 THEN <<total_unrealized_pnl * 100, total_invested>>
                 ELSE <<0, 1>>,
             portfolios |-> portfolio_data ])
    /\ UNCHANGED dash_portfolios
    /\ DashFrame

DashNext == \E user_id \in UserIds : get_dashboard_summary(user_id)

(***************************************************************************)
(* Claims about the dashboard                                              *)
(***************************************************************************)
OwnedBy(user_id) == {p \in DOMAIN dash_portfolios : dash_portfolios[p].user_id = user_id}

Summarized(user_id) == {p \in OwnedBy(user_id) : ~dash_portfolios[p].summary.raises}

RECURSIVE SumOver(_, _)
SumOver(ids, field) ==
    IF ids = {} THEN 0
    ELSE LET p == CHOOSE q \in ids : TRUE IN
         dash_portfolios[p].summary[field] + SumOver(ids \ {p}, field)

\* C15: if the summary fails for k of a user's N portfolios, the dashboard
\* request still succeeds, total_portfolios is N - k and the totals are the
\* sums over exactly the portfolios whose summary succeeded.
C15_DashboardSkipsFailures ==
    \A i \in 1..Len(dash_responses) :
        LET response == dash_responses[i]
            N == Cardinality(OwnedBy(response.user_id))
            k == Cardinality(OwnedBy(response.user_id) \ Summarized(response.user_id))
        IN /\ response.status_code = 200
           /\ response.total_portfolios = N - k
           /\ response.total_net_worth = SumOver(Summarized(response.user_id), "current_value")
           /\ response.total_invested = SumOver(Summarized(response.user_id), "total_invested")
           /\ response.total_unrealized_pnl =
                  SumOver(Summarized(response.user_id), "unrealized_pnl")

C15_Witness ==
    \E i \in 1..Len(dash_responses) :
        LET user_id == dash_responses[i].user_id IN
        /\ Cardinality(OwnedBy(user_id)) = 3
        /\ Cardinality(Summarized(user_id)) = 2
        /\ dash_responses[i].total_portfolios = 2
        /\ dash_responses[i].total_net_worth = 160

(***************************************************************************)
(* The canonicalizer on new instruments                                    *)
(* src/app/canonicalization/canonicalizer.py                               *)
(* InstrumentCanonicalizer.canonicalize with its cache and candidates.      *)
(***************************************************************************)
AssetClasses == {"equity", "commodity"}

\* asset_class.value.upper()
UpperAssetClass(asset_class) == IF asset_class = "equity" THEN "EQUITY" ELSE "COMMODITY"

\* hashlib.md5(name.encode('utf-8')).hexdigest()[:8].upper(): a value that
\* depends on the name alone.
NameHash(name) == <<"md5[:8].upper", name>>

\* _select_primary_identifier: the type of the first identifier by priority;
\* with an empty list both branches of its return index an empty list.
SelectPrimaryIdentifier(structured) ==
    IF structured.isin # "" THEN "isin"
    ELSE IF structured.amfi_code # "" THEN "amfi_code"
    ELSE IF structured.cusip # "" THEN "cusip"
    ELSE IF structured.symbol # "" THEN "symbol"
    ELSE "IndexError"

CanonIdle ==
    /\ canon_cache = {}
    /\ canon_results = <<>>

CanonInit == CanonIdle

\* The candidate lists a caller passes as existing_instruments: none, or one
\* instrument known by its ISIN that also carries the symbol INFY on NSE.
ListedInfy ==
    [ canonical_id |-> <<"ISIN", "IN1", "">>, name |-> "INFOSYS", asset_class |-> "equity",
      isin |-> "IN1", amfi_code |-> "", cusip |-> "", symbol |-> "INFY",
      primary_exchange |-> "NSE", is_active |-> TRUE ]

CandidateLists == { <<>>, <<ListedInfy>> }

\* ExactMatcher.match for one query identifier against one candidate.
MatchesCandidate(structured, kind, candidate) ==
    CASE kind = "isin" -> structured.isin # "" /\ candidate.isin = structured.isin
      [] kind = "amfi_code" ->
           structured.amfi_code # "" /\ candidate.amfi_code = structured.amfi_code
      [] kind = "cusip" -> structured.cusip # "" /\ candidate.cusip = structured.cusip
      [] kind = "symbol" ->
           /\ structured.symbol # ""
           /\ candidate.symbol = structured.symbol
           /\ ~( /\ structured.exchange # ""
                 /\ candidate.primary_exchange # ""
                 /\ structured.exchange # candidate.primary_exchange )

\* _find_matches and max(matches): the matches are listed by query identifier,
\* then by candidate; all have confidence 1.0 and max keeps the first.
\* The index of the best match in the list, 0 when nothing matches.
BestCandidate(structured, existing_instruments) ==
    LET hit(k) == { c \in 1..Len(existing_instruments) :
                      MatchesCandidate(structured, IdentifierKinds[k],
                                       existing_instruments[c]) }
        first == IF \E k \in 1..4 : hit(k) # {}
                 THEN CHOOSE k \in 1..4 : hit(k) # {} /\ \A m \in 1..(k - 1) : hit(m) = {}
                 ELSE 0
    IN IF first = 0 THEN 0 ELSE FirstRow(hit(first))

\* What canonicalize returns or raises on the cache given, and the cache it
\* leaves.
Canonicalized(cache, name, structured, asset_class, exchange, existing_instruments) ==
    LET key == CacheKey(name, structured)
        hit == {entry \in cache : entry.key = key}
        best == BestCandidate(structured, existing_instruments)
        created == CreateNewInstrument(name, structured, asset_class, exchange)
    IN IF hit # {}
       THEN [ raised |-> "", cache |-> cache,
              canonical_id |-> (CHOOSE entry \in hit : TRUE).canonical.canonical_id ]
       ELSE IF best # 0
       THEN [ raised |-> "",
              cache |-> cache \cup {[key |-> key, canonical |-> existing_instruments[best]]},
              canonical_id |-> existing_instruments[best].canonical_id ]
       ELSE IF SelectPrimaryIdentifier(structured) = "IndexError"
       THEN [ raised |-> "IndexError", cache |-> cache, canonical_id |-> <<>> ]
       ELSE [ raised |-> "",
              cache |-> cache \cup {[key |-> key, canonical |-> created]},
              canonical_id |-> created.canonical_id ]

\* InstrumentCanonicalizer.canonicalize(name, identifiers, asset_class,
\* currency, existing_instruments, exchange)
canonicalize(name, identifiers, asset_class, exchange, existing_instruments) ==
    LET structured == ParseIdentifiers(identifiers, exchange)
        result == Canonicalized(canon_cache, name, structured, asset_class,
                                Upper(exchange), existing_instruments)
    IN
    /\ Len(canon_results) < MaxCanonicalizeCalls
    /\ canon_results' = Append(canon_results,
           [ name |-> name, structured |-> structured, asset_class |-> asset_class,
             exchange |-> Upper(exchange), existing_instruments |-> existing_instruments,
             raised |-> result.raised, canonical_id |-> result.canonical_id ])
    /\ canon_cache' = result.cache
    /\ CanonFrame

CanonNext ==
    \E name \in InstrumentNames, identifiers \in IdentifierBags,
       asset_class \in AssetClasses, exchange \in {"", "NSE"},
       existing_instruments \in CandidateLists :
        canonicalize(name, identifiers, asset_class, exchange, existing_instruments)

(***************************************************************************)
(* Claims about the canonicalizer                                          *)
(***************************************************************************)
\* C16: canonicalizing a new instrument with an empty identifier list yields
\* the canonical id MANUAL:<ASSET_CLASS>:<8 hex digits of the name digest>, and
\* two such calls with the same name and asset class yield the same id.
C16_ManualCanonicalId ==
    \A i \in 1..Len(canon_results) :
        NoIdentifiers(canon_results[i].structured) =>
            /\ canon_results[i].raised = ""
            /\ canon_results[i].canonical_id =
                   <<"MANUAL", UpperAssetClass(canon_results[i].asset_class),
                     NameHash(canon_results[i].name)>>
            /\ \A j \in 1..Len(canon_results) :
                   ( /\ NoIdentifiers(canon_results[j].structured)
                     /\ canon_results[j].name = canon_results[i].name
                     /\ canon_results[j].asset_class = canon_results[i].asset_class )
                   => canon_results[j].canonical_id = canon_results[i].canonical_id

\* C27: whatever earlier canonicalize calls have left in the cache, a call
\* returns the canonical id (or raises the error) it would with an empty cache
\* for the same name, identifiers, asset class and candidate instruments.
C27_CacheTransparent ==
    \A i \in 1..Len(canon_results) :
        LET call == canon_results[i]
            fresh == Canonicalized({}, call.name, call.structured, call.asset_class,
                                   call.exchange, call.existing_instruments)
        IN call.raised = fresh.raised /\ call.canonical_id = fresh.canonical_id

(***************************************************************************)
(* Ingestion's canonical ids against the canonicalizer's generator         *)
(* src/app/canonicalization/canonicalizer.py, src/app/ingestion/service.py *)
(***************************************************************************)
\* CanonicalIdGenerator.generate on the primary identifier the canonicalizer
\* selects: ISIN, AMFI code, CUSIP, symbol with its exchange or UNK, and
\* without identifiers the MANUAL id of the asset class and the name digest.
Generate(structured, asset_class, name) ==
    IF NoIdentifiers(structured)
    THEN <<"MANUAL", UpperAssetClass(asset_class), NameHash(name)>>
    ELSE GenerateCanonicalId(structured)

\* The identifiers of a parsed transaction as InstrumentIdentifier values.
IdentifiersOf(parsed_txn) ==
    ParseIdentifiers([ isin      |-> parsed_txn.isin,
                       amfi_code |-> parsed_txn.amfi_code,
                       cusip     |-> parsed_txn.cusip,
                       symbol    |-> parsed_txn.symbol ], parsed_txn.exchange)

\* C29: whenever ingestion creates a new instrument for a parsed transaction,
\* the row's canonical id is the one the canonicalizer's generator yields for
\* the transaction's identifiers, exchange, name and asset class.
C29_IngestionIdMatchesGenerator ==
    [][\A parsed_txn \in ParsedTransactions :
        ( /\ find_or_create_instrument_ingestion(parsed_txn)
          /\ Len(instruments') = Len(instruments) + 1 )
        => instruments'[Len(instruments')].canonical_id
             = Generate(IdentifiersOf(parsed_txn), DetermineAssetClass(parsed_txn),
                        parsed_txn.instrument_name)]_vars

(***************************************************************************)
(* Specifications: one per subsystem, the others idle                      *)
(***************************************************************************)
InitCA ==
    /\ CAInit
    /\ AuthIdle
    /\ LotIdle
    /\ PosIdle
    /\ PriceIdle
    /\ InstrIdle
    /\ UploadIdle
    /\ ApiIdle
    /\ DashIdle
    /\ CanonIdle
SpecCA == InitCA /\ [][CANext]_vars

\* Starlette runs every task added to BackgroundTasks after the response is
\* sent, and a started process_action runs to its end.
CAFairness ==
    /\ \A a \in ActionIds : WF_vars(process_corporate_action_async(a))
    /\ \A p \in RunIds :
          /\ WF_vars(process_action_commit_processing(p))
          /\ WF_vars(process_action_dispatch(p))
          /\ WF_vars(process_action_commit_completed(p))
          /\ WF_vars(process_action_commit_failed(p))
SpecCALive == InitCA /\ [][CANext]_vars /\ CAFairness

InitAuth ==
    /\ AuthInit
    /\ CAIdle
    /\ LotIdle
    /\ PosIdle
    /\ PriceIdle
    /\ InstrIdle
    /\ UploadIdle
    /\ ApiIdle
    /\ DashIdle
    /\ CanonIdle
SpecAuth == InitAuth /\ [][AuthNext]_vars

InitLots ==
    /\ LotInit
    /\ CAIdle
    /\ AuthIdle
    /\ PosIdle
    /\ PriceIdle
    /\ InstrIdle
    /\ UploadIdle
    /\ ApiIdle
    /\ DashIdle
    /\ CanonIdle
SpecLots == InitLots /\ [][LotNext]_vars

InitPos ==
    /\ PosInit
    /\ CAIdle
    /\ AuthIdle
    /\ LotIdle
    /\ PriceIdle
    /\ InstrIdle
    /\ UploadIdle
    /\ ApiIdle
    /\ DashIdle
    /\ CanonIdle
SpecPos == InitPos /\ [][PosNext]_vars

InitPrice ==
    /\ PriceInit
    /\ CAIdle
    /\ AuthIdle
    /\ LotIdle
    /\ PosIdle
    /\ InstrIdle
    /\ UploadIdle
    /\ ApiIdle
    /\ DashIdle
    /\ CanonIdle
SpecPrice == InitPrice /\ [][PriceNext]_vars

InitInstr ==
    /\ InstrInit
    /\ CAIdle
    /\ AuthIdle
    /\ LotIdle
    /\ PosIdle
    /\ PriceIdle
    /\ UploadIdle
    /\ ApiIdle
    /\ DashIdle
    /\ CanonIdle
SpecInstr == InitInstr /\ [][InstrNext]_vars

InitUpload ==
    /\ UploadInit
    /\ CAIdle
    /\ AuthIdle
    /\ LotIdle
    /\ PosIdle
    /\ PriceIdle
    /\ InstrIdle
    /\ ApiIdle
    /\ DashIdle
    /\ CanonIdle
SpecUpload == InitUpload /\ [][UploadNext]_vars

InitApi ==
    /\ ApiInit
    /\ CAIdle
    /\ AuthIdle
    /\ LotIdle
    /\ PosIdle
    /\ PriceIdle
    /\ InstrIdle
    /\ UploadIdle
    /\ DashIdle
    /\ CanonIdle
SpecApi == InitApi /\ [][ApiNext]_vars

InitDash ==
    /\ DashInit
    /\ CAIdle
    /\ AuthIdle
    /\ LotIdle
    /\ PosIdle
    /\ PriceIdle
    /\ InstrIdle
    /\ UploadIdle
    /\ ApiIdle
    /\ CanonIdle
SpecDash == InitDash /\ [][DashNext]_vars

InitCanon ==
    /\ CanonInit
    /\ CAIdle
    /\ AuthIdle
    /\ LotIdle
    /\ PosIdle
    /\ PriceIdle
    /\ InstrIdle
    /\ UploadIdle
    /\ ApiIdle
    /\ DashIdle
SpecCanon == InitCanon /\ [][CanonNext]_vars

====
